---- MODULE Spec2Model ----
(***************************************************************************)
(* The chat orchestrator of the Chat component (handleSend and the         *)
(* handlers around it), as a state machine.  React state and refs are the  *)
(* variables; every await of a handler is a point where the handler is     *)
(* suspended and other handlers may run, so a handler is one action per    *)
(* synchronous stretch of its code.                                        *)
(*                                                                         *)
(* Texts are sequences of blocks (strings): a prompt is the concatenation  *)
(* of its prefix blocks and the user's text, a streamed reply is the       *)
(* concatenation of its chunks.                                            *)
(***************************************************************************)
EXTENDS Integers, Sequences, FiniteSets, TLC

\* ---------------------------------------------------------------- bounds
\* handleSend invocations that pass the guard in one run
MaxSends == 2
\* text chunks the streaming loop of handleSend is handed at most by one
\* streamChat generator (the generator of gemini.js yields one)
MaxChunks == 2
\* images pending in the composer at most
MaxImages == 1

\* videos in the list computeStatsJsonTool is called with at most
MaxVideos == 2
\* pending calls of deleteSession
MaxDeletes == 1

\* ------------------------------------------------------------ value space
NULL == "null"
\* the id of the unsaved pending chat
NewId == "new"

SendIds == 1..MaxSends

SessionIdOf(n) == "s" \o ToString(n)

\* one session is already persisted at login; send n may create SessionIdOf(n)
AllSessionIds == {SessionIdOf(n) : n \in 0..MaxSends}

\* files the user can attach: a CSV with rows, a CSV without a non-blank line,
\* a JSON file that parses, a JSON file that does not
CsvFiles == {"a.csv", "empty.csv"}
JsonFiles == {"good.json", "bad.json"}

\* what the user can type: nothing, blanks only, a phrase (possibly padded)
Phrases ==
  { "hi", "generate an image of a histogram", "plot views vs time",
    "histogram of likes" }

\* the phrases on which the routing is examined: the ones above and phrases
\* that match no, one or several of the routing expressions
RoutingPhrases ==
  Phrases \cup
    { "generate an image of a cat", "average likes", "play the first video",
      "summarize the data", "generate an image of a plot of views over time",
      "plot average views over time", "average views, then play the video" }

Inputs ==
  { <<>>, <<" ">>, <<" ", "hi", " ">> } \cup { <<p>> : p \in Phrases \ {"hi"} }

\* String.prototype.trim on the token sequence
RECURSIVE TrimLeft(_)
TrimLeft(s) ==
  IF s # <<>> /\ Head(s) = " " THEN TrimLeft(Tail(s)) ELSE s

RECURSIVE TrimRight(_)
TrimRight(s) ==
  IF s # <<>> /\ s[Len(s)] = " " THEN TrimRight(SubSeq(s, 1, Len(s) - 1)) ELSE s

TrimNothingMutant(s) == s

Trim(s) == TrimRight(TrimLeft(s))

\* ------------------------------------------------- routing predicates
\* The regular expressions of handleSend, evaluated on the phrases above.
WantsGenerateImage(text) ==
  text \in { <<"generate an image of a histogram">>, <<"generate an image of a cat">>,
             <<"generate an image of a plot of views over time">> }

WantsMetricPlot(text) ==
  text \in { <<"plot views vs time">>, <<"plot average views over time">>,
             <<"generate an image of a plot of views over time">> }

WantsStatsJson(text) ==
  text \in { <<"average likes">>, <<"plot average views over time">>,
             <<"average views, then play the video">> }

WantsPlayVideo(text) ==
  text \in { <<"play the first video">>, <<"average views, then play the video">> }

WantPythonOnly(text) ==
  text \in {<<"histogram of likes">>, <<"generate an image of a histogram">>}

CodeKeywords(text) ==
  text \in { <<"plot views vs time">>, <<"histogram of likes">>,
             <<"generate an image of a histogram">>, <<"summarize the data">>,
             <<"plot average views over time">>,
             <<"generate an image of a plot of views over time">> }

WantCodeWithRowsMutant(text, rows) == CodeKeywords(text)

WantCode(text, rows) == CodeKeywords(text) /\ rows = NULL

NeedsBase64AlwaysMutant(capturedCsv, text) == capturedCsv # NULL

NeedsBase64(capturedCsv, text) == capturedCsv # NULL /\ WantPythonOnly(text)

UseToolsDespitePythonMutant(text, rows, capturedCsv) ==
  /\ rows # NULL
  /\ ~WantCode(text, rows)
  /\ capturedCsv = NULL

UseTools(text, rows, capturedCsv) ==
  /\ rows # NULL
  /\ ~WantPythonOnly(text)
  /\ ~WantCode(text, rows)
  /\ capturedCsv = NULL

UseCodeExecution(text, rows) == WantPythonOnly(text) \/ WantCode(text, rows)

\* ------------------------------------------------- file parsing
\* parseCSV: null when the file has no non-blank line
ParseCSV(file) == IF file = "empty.csv" THEN NULL ELSE file

JsonParses(file) == file # "bad.json"

ParseCsvToRows(file) == "rows(" \o file \o ")"

HeadersOf(file) == "headers(" \o file \o ")"

ComputeDatasetSummary(rows) == "summary(" \o rows \o ")"

BuildSlimCsv(rows) == "slim(" \o rows \o ")"

ToBase64(file) == "base64(" \o file \o ")"

SummarizeChannelJson(obj) == "summary(" \o obj \o ")"

JsonObj(file) == "obj(" \o file \o ")"

JsonParseError(file) == "Invalid JSON: " \o file

\* ------------------------------------------------- JSON tools
\* A JSON value of a video field: a number, an empty string, a text that is no
\* number, or no value (the field is missing or null).
Num(n) == [k |-> "num", n |-> n]
Blank == [k |-> "blank", n |-> 0]
Text == [k |-> "text", n |-> 0]
Missing == [k |-> "missing", n |-> 0]

\* Number(raw): NaN for undefined and for a text that is no number, 0 for ""
IsNaN(raw) == raw.k \in {"text", "missing"}

ToNumber(raw) == IF raw.k = "num" THEN raw.n ELSE 0

Video(title, day, views, likes) ==
  [title |-> title, published_at |-> day, view_count |-> views, like_count |-> likes]

\* A channel JSON object: whether it has an array under `videos` and under
\* `items`, and the arrays
Channel(hasVideos, videos, hasItems, items) ==
  [hasVideos |-> hasVideos, videos |-> videos, hasItems |-> hasItems, items |-> items]

\* the objects the channel JSON files parse to
ChannelObject(obj) ==
  IF obj = "obj(good.json)"
  THEN Channel(TRUE, << Video("v1", Num(2), Num(10), Num(3)),
                        Video("v2", Num(1), Num(20), Blank) >>, FALSE, <<>>)
  ELSE IF obj = "obj(sparse.json)"
  THEN Channel(FALSE, <<>>, TRUE, << Video("v1", Missing, Num(10), Missing),
                                     Video("v2", Missing, Num(20), Text) >>)
  ELSE Channel(FALSE, <<>>, FALSE, <<>>)

\* getVideos (lines 94-99) of a channel JSON object
GetVideosIn(json) ==
  IF json.hasVideos THEN json.videos
  ELSE IF json.hasItems THEN json.items
  ELSE <<>>

\* getVideos of the object a file parsed to
GetVideos(obj) == GetVideosIn(ChannelObject(obj))

NoVideosError == "No videos loaded. Please attach a YouTube channel JSON file first."

\* seq.filter(keep) for a set of kept indices
RECURSIVE Filter(_, _)
Filter(seq, keep) ==
  IF seq = <<>> THEN <<>>
  ELSE LET rest == Filter(Tail(seq), {k - 1 : k \in keep \ {1}})
       IN IF 1 \in keep THEN <<Head(seq)>> \o rest ELSE rest

\* insertion of x into a sequence of records sorted by their key, after the
\* records with the same key
RECURSIVE Insert(_, _)
Insert(x, seq) ==
  IF seq = <<>> THEN <<x>>
  ELSE IF x.key < Head(seq).key THEN <<x>> \o seq
  ELSE <<Head(seq)>> \o Insert(x, Tail(seq))

\* Array.prototype.sort by an ascending key (stable)
RECURSIVE Sort(_)
Sort(seq) ==
  IF seq = <<>> THEN <<>>
  ELSE Insert(seq[Len(seq)], Sort(SubSeq(seq, 1, Len(seq) - 1)))

RECURSIVE Sum(_)
Sum(seq) == IF seq = <<>> THEN 0 ELSE Head(seq) + Sum(Tail(seq))

\* plotMetricVsTimeTool: the points with a date and a number, by date
PlotMetricVsTimeTool(videos, metric) ==
  IF videos = <<>> THEN [error |-> NoVideosError, data |-> <<>>]
  ELSE LET keep == {k \in DOMAIN videos :
                      videos[k].published_at.k = "num" /\ ~IsNaN(videos[k][metric])}
           points == [k \in DOMAIN Filter(videos, keep) |->
                        [key |-> Filter(videos, keep)[k].published_at.n,
                         label |-> Filter(videos, keep)[k].title,
                         value |-> ToNumber(Filter(videos, keep)[k][metric])]]
       IN IF points = <<>>
          THEN [error |-> "Could not find numeric data for metric \"" \o metric \o "\".", data |-> <<>>]
          ELSE [error |-> NULL, data |-> Sort(points)]

\* q.includes('most viewed') || q.includes('top') || q.includes('best') for
\* the lower-cased requests examined ("stop motion" contains "top")
IncludesMostViewed(q) ==
  q \in {"most viewed", "play the most viewed video", "stop motion"}

\* q.includes('least viewed') || q.includes('worst')
IncludesLeastViewed(q) == q \in {"least viewed"}

\* title.toLowerCase().includes(q) for a non-empty q
TitleIncludes(title, q) ==
  \/ title = "Stop Motion" /\ q \in {"stop motion"}
  \/ title = "Cats" /\ q \in {"cats"}

\* Number(v.view_count ?? ... ?? 0) || 0
ViewCount(v) == IF v.view_count.k = "num" THEN v.view_count.n ELSE 0

\* the first video of the list ordered by an ascending key (the sort is stable)
FirstByKey(videos, keys) ==
  LET least == CHOOSE k \in DOMAIN videos :
                 \A j \in DOMAIN videos :
                   keys[k] < keys[j] \/ (keys[k] = keys[j] /\ k <= j)
  IN videos[least]

\* the sort keys of (a, b) => b.viewCount - a.viewCount and of
\* (a, b) => a.viewCount - b.viewCount
MostViewedKey(videos) == [k \in DOMAIN videos |-> 0 - ViewCount(videos[k])]

LeastViewedKey(videos) == [k \in DOMAIN videos |-> ViewCount(videos[k])]

\* playVideoTool: the most viewed, the least viewed, the first whose title
\* contains the request, else the first video
PlayVideoTool(videos, which) ==
  IF videos = <<>> THEN [error |-> NoVideosError, title |-> ""]
  ELSE LET hits == {k \in DOMAIN videos : TitleIncludes(videos[k].title, which)}
           chosen == IF IncludesMostViewed(which) THEN FirstByKey(videos, MostViewedKey(videos))
                     ELSE IF IncludesLeastViewed(which) THEN FirstByKey(videos, LeastViewedKey(videos))
                     ELSE IF which # "" /\ hits # {}
                     THEN videos[CHOOSE k \in hits : \A j \in hits : k <= j]
                     ELSE videos[1]
       IN [error |-> NULL, title |-> chosen.title]

\* the values computeStatsJsonTool keeps: Number(raw) of every video where
\* it is not NaN
StatsValues(videos, field) ==
  LET keep == {k \in DOMAIN videos : ~IsNaN(videos[k][field])}
  IN [k \in DOMAIN Filter(videos, keep) |-> ToNumber(Filter(videos, keep)[k][field])]

\* computeStatsJsonTool; mean and median are fractions num / den
ComputeStatsJsonTool(videos, field) ==
  LET values == StatsValues(videos, field)
      sorted == [k \in DOMAIN values |-> Sort([j \in DOMAIN values |-> [key |-> values[j]]])[k].key]
      count == Len(values)
      none == [error |-> NULL, count |-> 0, mean |-> [num |-> 0, den |-> 1],
               median |-> [num |-> 0, den |-> 1], min |-> 0, max |-> 0]
  IN IF videos = <<>> THEN [none EXCEPT !.error = NoVideosError]
     ELSE IF values = <<>>
     THEN [none EXCEPT !.error = "No numeric values found for field \"" \o field \o "\"."]
     ELSE [ error |-> NULL,
            count |-> count,
            mean |-> [num |-> Sum(values), den |-> count],
            median |-> IF count % 2 = 0
                       THEN [num |-> sorted[count \div 2] + sorted[count \div 2 + 1], den |-> 2]
                       ELSE [num |-> sorted[(count - 1) \div 2 + 1], den |-> 1],
            min |-> sorted[1],
            max |-> sorted[count] ]

\* ------------------------------------------------- prompt assembly
Sep == "---"

\* Template literals drop an empty substitution: a block is kept when non-empty.
Block(b) == IF b = NULL \/ b = "" THEN <<>> ELSE <<b>>

CsvPrefix(capturedCsv, text, summary, slim, headers) ==
  IF capturedCsv # NULL
  THEN IF NeedsBase64(capturedCsv, text)
       THEN <<"[CSV File: " \o capturedCsv \o "]">> \o Block(summary) \o Block(slim)
              \o <<"python:" \o ToBase64(capturedCsv), Sep>>
       ELSE <<"[CSV File: " \o capturedCsv \o "]">> \o Block(summary) \o Block(slim)
              \o <<Sep>>
  ELSE IF summary # NULL
       THEN <<"[CSV columns: " \o headers \o "]", summary, Sep>>
       ELSE <<>>

JsonPrefix(capturedJson, chJson, chSummary, jErr) ==
  IF capturedJson # NULL /\ chJson # NULL
  THEN <<"[YouTube Channel JSON: " \o capturedJson \o "]">> \o Block(chSummary) \o <<Sep>>
  ELSE IF capturedJson # NULL /\ jErr # ""
       THEN <<"[YouTube Channel JSON: " \o capturedJson \o "]", jErr, Sep>>
       ELSE <<>>

UserContent(text, nImages, capturedCsv) ==
  IF text # <<>> THEN text
  ELSE IF nImages > 0 THEN <<"(Image)">>
  ELSE IF capturedCsv # NULL THEN <<"(CSV attached)">>
  ELSE <<"(JSON attached)">>

DefaultQuestion(text, nImages, capturedJson) ==
  IF text # <<>> THEN text
  ELSE IF nImages > 0 THEN <<"What do you see in this image?">>
  ELSE IF capturedJson # NULL THEN <<"Please analyze this YouTube channel JSON.">>
  ELSE <<"Please analyze this CSV data.">>

PromptForGemini(jsonPrefix, csvPrefix, body) == jsonPrefix \o csvPrefix \o body

\* ------------------------------------------------- state
VARIABLES
  initPc,                 \* "loading" until getSessions has returned
  sessions,               \* sidebar list of session ids, newest first
  activeSessionId,        \* NULL, NewId or a session id
  messages,               \* the in-memory message list on display
  input,                  \* the text box
  images,                 \* number of pending images
  csvContext,             \* pending CSV chip (the file it was parsed from)
  jsonContext,            \* pending JSON chip
  channelJson,            \* parsed JSON object for the tools
  channelJsonSummary,
  jsonError,
  sessionCsvRows,
  sessionCsvHeaders,
  csvDataSummary,
  sessionSlimCsv,
  streaming,
  abortRef,
  justCreatedSessionRef,
  sends,                  \* the handleSend invocations, by number
  loads,                  \* session ids with a loadMessages call pending
  fileOp,                 \* the handleDrop / handleFileSelect call in progress
  db,                     \* the document store: messages saved per session
  statsCall,              \* a call of computeStatsJsonTool: its arguments and its result
  promptFile,             \* the content of /prompt_chat.txt on the server
  cachedPrompt,           \* cachedPrompt of gemini.js
  toolCall,               \* a call of plotMetricVsTimeTool or playVideoTool: arguments and result
  deletes                 \* the handleDeleteSession calls awaiting deleteSession

composer == <<input, images, csvContext, jsonContext>>
jsonState == <<channelJson, channelJsonSummary, jsonError>>
csvState == <<sessionCsvRows, sessionCsvHeaders, csvDataSummary, sessionSlimCsv>>
refs == <<abortRef, justCreatedSessionRef>>
promptState == <<promptFile, cachedPrompt>>
vars ==
  <<initPc, sessions, activeSessionId, messages, composer, jsonState, csvState,
    streaming, refs, sends, loads, fileOp, db, statsCall, toolCall, deletes, promptState>>

\* ------------------------------------------------- system prompt (gemini.js)
\* cachedPrompt is null until the first load; afterwards it holds a text
NoPrompt == [isNull |-> TRUE, text |-> <<>>]

\* the contents /prompt_chat.txt can have: empty (or not served), a text, a
\* text followed by a blank
PromptFiles == { <<>>, <<"be brief">>, <<"be formal", " ">> }

\* `if (cachedPrompt)`: null and '' are falsy
Truthy(cached) == ~cached.isNull /\ cached.text # <<>>

\* cachedPrompt after loadSystemPrompt (lines 17-26); the function returns its text
LoadSystemPrompt(cached, file) ==
  IF Truthy(cached) THEN cached ELSE [isNull |-> FALSE, text |-> Trim(file)]

\* no call of plotMetricVsTimeTool or playVideoTool is being looked at
NoToolCall ==
  [pc |-> "none", tool |-> "none", json |-> Channel(FALSE, <<>>, FALSE, <<>>),
   arg |-> "", result |-> [error |-> NULL]]

\* no call of computeStatsJsonTool is being looked at
NoStatsCall == [pc |-> "none", videos |-> <<>>, field |-> "view_count", result |-> NULL]

NoSend ==
  [ pc |-> "unused", sessionId |-> NULL, text |-> <<>>, userContent |-> <<>>,
    prompt |-> <<>>, route |-> "none", jsonTool |-> "none",
    useCodeExecution |-> FALSE, nImages |-> 0, chJson |-> NULL, csv |-> NULL,
    json |-> NULL,
    fullContent |-> <<>>, chunks |-> 0,
    \* history of the invocation, read by the properties only
    stopped |-> FALSE, threw |-> FALSE, sentTo |-> "none", sentPrompt |-> <<>>,
    rowsAtBuild |-> NULL, summaryAtBuild |-> NULL,
    systemInstruction |-> <<>>, fileAtCall |-> <<>>, abortBefore |-> FALSE ]

NoFileOp == [pc |-> "idle", csv |-> NULL, json |-> NULL, img |-> 0]

Init ==
  /\ initPc = "loading"
  /\ sessions = <<>>
  /\ activeSessionId = NULL
  /\ messages = <<>>
  /\ input = <<>>
  /\ images = 0
  /\ csvContext = NULL
  /\ jsonContext = NULL
  /\ channelJson = NULL
  /\ channelJsonSummary = ""
  /\ jsonError = ""
  /\ sessionCsvRows = NULL
  /\ sessionCsvHeaders = NULL
  /\ csvDataSummary = NULL
  /\ sessionSlimCsv = NULL
  /\ streaming = FALSE
  /\ abortRef = FALSE
  /\ justCreatedSessionRef = FALSE
  /\ sends = [i \in SendIds |-> NoSend]
  /\ loads = {}
  /\ fileOp = NoFileOp
  /\ statsCall = NoStatsCall
  /\ promptFile = <<"be brief">>
  /\ cachedPrompt = NoPrompt
  /\ toolCall = NoToolCall
  /\ deletes = {}
  /\ db = [s \in AllSessionIds |->
             IF s = SessionIdOf(0)
             THEN <<[role |-> "user", content |-> <<"earlier question">>, by |-> 0]>>
             ELSE <<>>]

\* ------------------------------------------------- helpers on the state
InFlight(i) == sends[i].pc \notin {"unused", "done", "failed"}

\* the next unused invocation number, 0 when the bound is reached
NextSend ==
  IF \E i \in SendIds : sends[i].pc = "unused"
  THEN CHOOSE i \in SendIds : sends[i].pc = "unused" /\ \A j \in 1..(i - 1) : sends[j].pc # "unused"
  ELSE 0

\* a handler that returned or threw keeps nothing but how it ended
Ended(s, how) ==
  [NoSend EXCEPT !.pc = how, !.sessionId = s.sessionId, !.stopped = s.stopped, !.threw = s.threw]

Msg(id, role, content) == [id |-> id, role |-> role, content |-> content, charts |-> <<>>]

UserMsgId(i) == "u" \o ToString(i)

AssistantId(i) == "a" \o ToString(i)

\* m.map(msg => msg.id === id ? {...msg, content} : msg)
SetContent(msgs, id, content) ==
  [k \in DOMAIN msgs |->
     IF msgs[k].id = id THEN [msgs[k] EXCEPT !.content = content] ELSE msgs[k]]

\* loadMessages: the stored messages of a session as message objects
LoadedMessages(stored) ==
  [k \in DOMAIN stored |-> Msg("m" \o ToString(k), stored[k].role, stored[k].content)]

SaveMessage(store, sessionId, role, content, i) ==
  [store EXCEPT ![sessionId] = Append(@, [role |-> role, content |-> content, by |-> i])]

ErrText(what) == <<"Error: " \o what>>

\* useEffect[activeSessionId], run when the id changed from prev to next:
\* the messages, the flag and the loadMessages calls it leaves
ActiveSessionEffectFlagKeptMutant(prev, next, msgs, flag, pending) ==
  IF prev = next THEN [messages |-> msgs, flag |-> flag, loads |-> pending]
  ELSE IF next = NULL \/ next = NewId
  THEN [messages |-> <<>>, flag |-> flag, loads |-> pending]
  ELSE IF flag
  THEN [messages |-> msgs, flag |-> flag, loads |-> pending]
  ELSE [messages |-> <<>>, flag |-> FALSE, loads |-> pending \cup {next}]

ActiveSessionEffect(prev, next, msgs, flag, pending) ==
  IF prev = next THEN [messages |-> msgs, flag |-> flag, loads |-> pending]
  ELSE IF next = NULL \/ next = NewId
  THEN [messages |-> <<>>, flag |-> flag, loads |-> pending]
  ELSE IF flag
  THEN [messages |-> msgs, flag |-> FALSE, loads |-> pending]
  ELSE [messages |-> <<>>, flag |-> FALSE, loads |-> pending \cup {next}]

\* ------------------------------------------------- handleSend
\* the guard of handleSend (line 476), on the state the handler was rendered with
SendGuard ==
  /\ Trim(input) # <<>> \/ images > 0 \/ csvContext # NULL \/ jsonContext # NULL
  /\ ~streaming
  /\ activeSessionId # NULL

JsonToolOfStatsFirstMutant(text) ==
  IF WantsStatsJson(text) THEN "stats"
  ELSE IF WantsMetricPlot(text) THEN "plot"
  ELSE IF WantsPlayVideo(text) THEN "play"
  ELSE "none"

JsonToolOf(text) ==
  IF WantsMetricPlot(text) THEN "plot"
  ELSE IF WantsStatsJson(text) THEN "stats"
  ELSE IF WantsPlayVideo(text) THEN "play"
  ELSE "none"

RouteJsonFirstMutant(text, chJson, rows, capturedCsv) ==
  IF chJson # NULL /\ JsonToolOf(text) # "none" THEN "json"
  ELSE IF WantsGenerateImage(text) THEN "image"
  ELSE IF UseTools(text, rows, capturedCsv) THEN "tools"
  ELSE "stream"

Route(text, chJson, rows, capturedCsv) ==
  IF WantsGenerateImage(text) THEN "image"
  ELSE IF chJson # NULL /\ JsonToolOf(text) # "none" THEN "json"
  ELSE IF UseTools(text, rows, capturedCsv) THEN "tools"
  ELSE "stream"

\* Everything handleSend computes from the values its closure captured
\* (lines 475, 489-587): the routing flags, the display text and the prompt.
Captured(pc, sessionId) ==
  LET text == Trim(input) IN
  [ NoSend EXCEPT
      !.pc = pc,
      !.sessionId = sessionId,
      !.text = text,
      !.userContent = UserContent(text, images, csvContext),
      !.prompt =
         PromptForGemini(
           JsonPrefix(jsonContext, channelJson, channelJsonSummary, jsonError),
           CsvPrefix(csvContext, text, csvDataSummary, sessionSlimCsv, sessionCsvHeaders),
           DefaultQuestion(text, images, jsonContext)),
      !.route = Route(text, channelJson, sessionCsvRows, csvContext),
      !.jsonTool = JsonToolOf(text),
      !.useCodeExecution = UseCodeExecution(text, sessionCsvRows),
      !.nImages = images,
      !.chJson = channelJson,
      !.csv = csvContext,
      !.json = jsonContext,
      !.rowsAtBuild = sessionCsvRows,
      !.summaryAtBuild = csvDataSummary ]

\* lines 598-604: show the user message, clear the composer, raise the flag
ShowUserMessageKeepsCsvMutant(i, s) ==
  /\ input' = <<>>
  /\ images' = 0
  /\ csvContext' = csvContext
  /\ jsonContext' = NULL
  /\ streaming' = TRUE

ShowUserMessage(i, s) ==
  /\ input' = <<>>
  /\ images' = 0
  /\ csvContext' = NULL
  /\ jsonContext' = NULL
  /\ streaming' = TRUE

\* whether handleSend creates the session first (line 480)
IsUnsavedAlwaysMutant(sessionId) == TRUE

IsUnsaved(sessionId) == sessionId = NewId

\* A call of handleSend that passes the guard.  In a persisted session it runs
\* to the await of saveMessage; in the 'new' chat it stops at createSession.
HandleSend ==
  /\ SendGuard
  /\ NextSend # 0
  /\ LET i == NextSend IN
       IF IsUnsaved(activeSessionId)
       THEN /\ sends' = [sends EXCEPT ![i] = Captured("create", NULL)]
            /\ UNCHANGED <<messages, composer, streaming>>
       ELSE /\ sends' = [sends EXCEPT ![i] = Captured("saveUser", activeSessionId)]
            /\ messages' = Append(messages, Msg(UserMsgId(i), "user", sends'[i].userContent))
            /\ ShowUserMessage(i, sends'[i])
  /\ UNCHANGED <<statsCall, toolCall, deletes, promptState, initPc, sessions, activeSessionId, jsonState, csvState, refs, loads, fileOp, db>>

\* A call of handleSend that the guard rejects returns at once.
HandleSendRejected ==
  /\ ~SendGuard
  /\ UNCHANGED vars

\* createSession returns (lines 482-487, then 489-607) or throws
CreateSessionReturns(i, ok) ==
  /\ sends[i].pc = "create"
  /\ IF ok
     THEN LET id == SessionIdOf(i)
              shown == Append(messages, Msg(UserMsgId(i), "user", sends[i].userContent))
              eff == ActiveSessionEffect(activeSessionId, id, shown, TRUE, loads)
          IN /\ sends' = [sends EXCEPT ![i].pc = "saveUser", ![i].sessionId = id]
             /\ activeSessionId' = id
             /\ sessions' = <<id>> \o sessions
             /\ messages' = eff.messages
             /\ justCreatedSessionRef' = eff.flag
             /\ loads' = eff.loads
             /\ ShowUserMessage(i, sends[i])
             /\ UNCHANGED abortRef
     ELSE /\ sends' = [sends EXCEPT ![i] = Ended(sends[i], "failed")]
          /\ UNCHANGED <<sessions, activeSessionId, messages, composer, streaming, refs, loads>>
  /\ UNCHANGED <<statsCall, toolCall, deletes, promptState, initPc, jsonState, csvState, fileOp, db>>

\* the function of jsonTools.js behind a JSON tool
ToolName(tool) ==
  IF tool = "plot" THEN "plotMetricVsTimeTool"
  ELSE IF tool = "stats" THEN "computeStatsJsonTool"
  ELSE "playVideoTool"

\* the metric or field the request names (lines 666-674, 686-696)
MetricKeyOf(text) == IF text = <<"average likes">> THEN "like_count" ELSE "view_count"

\* `which`: the request in lower case (line 713; no phrase examined starts
\* with "play_video:")
Which(text) == IF text = <<>> THEN "" ELSE text[1]

\* the result of the JSON tool dispatched for the message (lines 665-728)
JsonToolResult(tool, obj, text) ==
  IF tool = "plot" THEN PlotMetricVsTimeTool(GetVideos(obj), MetricKeyOf(text))
  ELSE IF tool = "stats" THEN ComputeStatsJsonTool(GetVideos(obj), MetricKeyOf(text))
  ELSE PlayVideoTool(GetVideos(obj), Which(text))

\* contentText: the reply of the JSON tool, or the error string it returned
JsonToolReplyIgnoringErrorMutant(tool, obj, text) ==
  LET result == JsonToolResult(tool, obj, text) IN
  IF tool = "plot"
  THEN <<"Plotted " \o MetricKeyOf(text) \o " vs time for "
           \o ToString(Len(result.data)) \o " videos.">>
  ELSE IF tool = "stats"
  THEN <<"Stats for " \o MetricKeyOf(text) \o " (n=" \o ToString(result.count) \o ")">>
  ELSE <<"Opening video: " \o result.title>>

JsonToolReply(tool, obj, text) ==
  LET result == JsonToolResult(tool, obj, text) IN
  IF result.error # NULL THEN <<result.error>>
  ELSE IF tool = "plot"
  THEN <<"Plotted " \o MetricKeyOf(text) \o " vs time for "
           \o ToString(Len(result.data)) \o " videos.">>
  ELSE IF tool = "stats"
  THEN <<"Stats for " \o MetricKeyOf(text) \o " (n=" \o ToString(result.count) \o ")">>
  ELSE <<"Opening video: " \o result.title>>

\* the charts attached to the reply of the JSON tool
JsonToolCharts(tool, obj, text) ==
  LET result == JsonToolResult(tool, obj, text) IN
  IF result.error # NULL \/ tool = "stats" THEN <<>>
  ELSE IF tool = "plot" THEN <<"metric_vs_time">>
  ELSE <<"video_card">>

\* m.map(msg => msg.id === id ? {...msg, content, charts} : msg)
SetToolReply(msgs, id, content, charts) ==
  [k \in DOMAIN msgs |->
     IF msgs[k].id = id THEN [msgs[k] EXCEPT !.content = content, !.charts = charts]
     ELSE msgs[k]]

GeneratedImageText(text) == <<"Generated image for: ">> \o text

\* abortRef.current after line 783, before the model call
AbortAtLoopStartKeptMutant(abort) == abort

AbortAtLoopStart(abort) == FALSE

\* the text saved for the user message (line 607)
SavedUserTextPromptMutant(s) == s.prompt

SavedUserText(s) == s.userContent

\* saveMessage of the user message returns (lines 607-658, 765-783) or throws;
\* on the client-tools and streaming paths the model call starts, which loads
\* the system prompt first (gemini.js lines 34, 89)
SaveUserReturns(i, ok) ==
  /\ sends[i].pc = "saveUser"
  /\ IF ~ok
     THEN /\ sends' = [sends EXCEPT ![i] = Ended(sends[i], "failed")]
          /\ UNCHANGED <<messages, abortRef, db>>
     ELSE LET s == sends[i]
              shown == Append(messages, Msg(AssistantId(i), "model", <<>>))
          IN /\ db' = SaveMessage(db, s.sessionId, "user", SavedUserText(s), i)
             /\ CASE s.route = "image" ->
                       /\ messages' = shown
                       /\ sends' = [sends EXCEPT ![i].pc = "imgCall",
                                                 ![i].sentTo = "generateImageTool",
                                                 ![i].sentPrompt = s.text]
                       /\ UNCHANGED abortRef
                  [] s.route = "json" ->
                       /\ messages' = SetToolReply(shown, AssistantId(i),
                                                   JsonToolReply(s.jsonTool, s.chJson, s.text),
                                                   JsonToolCharts(s.jsonTool, s.chJson, s.text))
                       /\ sends' = [sends EXCEPT ![i].pc = "toolSave",
                                                 ![i].sentTo = ToolName(s.jsonTool),
                                                 ![i].fullContent = JsonToolReply(s.jsonTool, s.chJson, s.text)]
                       /\ UNCHANGED abortRef
                  [] s.route = "tools" ->
                       /\ messages' = shown
                       /\ abortRef' = AbortAtLoopStart(abortRef)
                       /\ sends' = [sends EXCEPT ![i].pc = "toolsCall",
                                                 ![i].sentTo = "chatWithCsvTools",
                                                 ![i].systemInstruction =
                                                    LoadSystemPrompt(cachedPrompt, promptFile).text,
                                                 ![i].fileAtCall = promptFile,
                                                 ![i].abortBefore = abortRef,
                                                 ![i].sentPrompt = s.prompt]
                  [] s.route = "stream" ->
                       /\ messages' = shown
                       /\ abortRef' = AbortAtLoopStart(abortRef)
                       /\ sends' = [sends EXCEPT ![i].pc = "stream",
                                                 ![i].sentTo = "streamChat",
                                                 ![i].systemInstruction =
                                                    LoadSystemPrompt(cachedPrompt, promptFile).text,
                                                 ![i].fileAtCall = promptFile,
                                                 ![i].abortBefore = abortRef,
                                                 ![i].sentPrompt = s.prompt]
  /\ cachedPrompt' = IF ok /\ sends[i].route \in {"tools", "stream"}
                     THEN LoadSystemPrompt(cachedPrompt, promptFile)
                     ELSE cachedPrompt
  /\ UNCHANGED <<statsCall, toolCall, deletes, promptFile, initPc, sessions, activeSessionId, composer, jsonState, csvState,
                 streaming, justCreatedSessionRef, loads, fileOp>>

\* generateImageTool returns (lines 625-639) or throws (lines 640-643)
GenerateImageReturns(i, ok) ==
  /\ sends[i].pc = "imgCall"
  /\ LET reply == IF ok THEN GeneratedImageText(sends[i].text) ELSE ErrText("image generation failed")
     IN /\ messages' = SetContent(messages, AssistantId(i), reply)
        /\ sends' = [sends EXCEPT ![i].pc = IF ok THEN "toolSave" ELSE "toolSaveErr",
                                  ![i].fullContent = reply,
                                  ![i].threw = ~ok]
  /\ UNCHANGED <<statsCall, toolCall, deletes, promptState, initPc, sessions, activeSessionId, composer, jsonState, csvState,
                 streaming, refs, loads, fileOp, db>>

\* saveMessage inside the try of the generate-image or JSON-tool path returns
\* (lines 639-649, 743-762) or throws into the catch (lines 640-643, 751-756)
ToolSaveReturns(i, ok) ==
  /\ sends[i].pc = "toolSave"
  /\ IF ok
     THEN /\ db' = SaveMessage(db, sends[i].sessionId, "model", sends[i].fullContent, i)
          /\ streaming' = FALSE
          /\ sends' = [sends EXCEPT ![i] = Ended(sends[i], "done")]
          /\ UNCHANGED messages
     ELSE /\ messages' = SetContent(messages, AssistantId(i), ErrText("save failed"))
          /\ sends' = [sends EXCEPT ![i].pc = "toolSaveErr",
                                    ![i].fullContent = ErrText("save failed")]
          /\ UNCHANGED <<db, streaming>>
  /\ UNCHANGED <<statsCall, toolCall, deletes, promptState, initPc, sessions, activeSessionId, composer, jsonState, csvState,
                 refs, loads, fileOp>>

\* saveMessage inside the catch returns or throws; the finally block runs
\* either way (lines 643-649, 756-762)
ToolSaveErrSkipsSaveMutant(i, ok) ==
  /\ sends[i].pc = "toolSaveErr"
  /\ streaming' = FALSE
  /\ sends' = [sends EXCEPT ![i] = Ended(sends[i], IF ok THEN "done" ELSE "failed")]
  /\ UNCHANGED <<statsCall, toolCall, deletes, promptState, initPc, sessions, activeSessionId, messages, composer, jsonState,
                 csvState, refs, loads, fileOp, db>>

ToolSaveErrReturns(i, ok) ==
  /\ sends[i].pc = "toolSaveErr"
  /\ db' = IF ok THEN SaveMessage(db, sends[i].sessionId, "model", sends[i].fullContent, i) ELSE db
  /\ streaming' = FALSE
  /\ sends' = [sends EXCEPT ![i] = Ended(sends[i], IF ok THEN "done" ELSE "failed")]
  /\ UNCHANGED <<statsCall, toolCall, deletes, promptState, initPc, sessions, activeSessionId, messages, composer, jsonState,
                 csvState, refs, loads, fileOp>>

\* fullContent after the catch of the model call (lines 841-847)
CaughtContentKeptMutant(s) == s.fullContent

CaughtContent(s) == ErrText("model call failed")

\* chatWithCsvTools returns (lines 795-817) or throws (lines 841-847)
ToolsCallReturns(i, ok) ==
  /\ sends[i].pc = "toolsCall"
  /\ IF ok
     THEN /\ messages' = SetContent(messages, AssistantId(i), <<"answer">>)
          /\ sends' = [sends EXCEPT ![i].pc = "saveModel", ![i].fullContent = <<"answer">>]
     ELSE /\ messages' = SetContent(messages, AssistantId(i), ErrText("model call failed"))
          /\ sends' = [sends EXCEPT ![i].pc = "saveModel",
                                    ![i].fullContent = CaughtContent(sends[i]),
                                    ![i].threw = TRUE]
  /\ UNCHANGED <<statsCall, toolCall, deletes, promptState, initPc, sessions, activeSessionId, composer, jsonState, csvState,
                 streaming, refs, loads, fileOp, db>>

ChunkText(k) == "chunk" \o ToString(k)

\* whether the streaming loop leaves at the chunk it was handed (line 821)
Breaks(abort) == abort

\* fullContent when the loop leaves at a chunk: the check precedes the append
\* (lines 821-823)
ContentAtBreakAppendedMutant(full, chunk) == Append(full, chunk)

ContentAtBreak(full, chunk) == full

\* streamChat yields a text chunk (lines 820-827)
StreamChunk(i) ==
  /\ sends[i].pc = "stream"
  /\ sends[i].chunks < MaxChunks
  /\ IF Breaks(abortRef)
     THEN /\ sends' = [sends EXCEPT
                         ![i].pc = "saveModel",
                         ![i].fullContent =
                            ContentAtBreak(sends[i].fullContent, ChunkText(sends[i].chunks + 1))]
          /\ UNCHANGED messages
     ELSE LET full == Append(sends[i].fullContent, ChunkText(sends[i].chunks + 1))
          IN /\ sends' = [sends EXCEPT ![i].fullContent = full, ![i].chunks = @ + 1]
             /\ messages' = SetContent(messages, AssistantId(i), full)
  /\ UNCHANGED <<statsCall, toolCall, deletes, promptState, initPc, sessions, activeSessionId, composer, jsonState, csvState,
                 streaming, refs, loads, fileOp, db>>

\* streamChat is exhausted (line 840) or throws (lines 841-847)
StreamEnds(i, ok) ==
  /\ sends[i].pc = "stream"
  /\ IF ok
     THEN /\ sends' = [sends EXCEPT ![i].pc = "saveModel"]
          /\ UNCHANGED messages
     ELSE /\ messages' = SetContent(messages, AssistantId(i), ErrText("model call failed"))
          /\ sends' = [sends EXCEPT ![i].pc = "saveModel",
                                    ![i].fullContent = CaughtContent(sends[i]),
                                    ![i].threw = TRUE]
  /\ UNCHANGED <<statsCall, toolCall, deletes, promptState, initPc, sessions, activeSessionId, composer, jsonState, csvState,
                 streaming, refs, loads, fileOp, db>>

\* the text saved for the assistant message (lines 856-858)
SavedContent(s) == s.fullContent

\* saveMessage of the assistant message returns (lines 859-873) or throws
SaveModelReturns(i, ok) ==
  /\ sends[i].pc = "saveModel"
  /\ IF ok
     THEN /\ db' = SaveMessage(db, sends[i].sessionId, "model", SavedContent(sends[i]), i)
          /\ streaming' = FALSE
          /\ sends' = [sends EXCEPT ![i] = Ended(sends[i], "done")]
     ELSE /\ sends' = [sends EXCEPT ![i] = Ended(sends[i], "failed")]
          /\ UNCHANGED <<db, streaming>>
  /\ UNCHANGED <<statsCall, toolCall, deletes, promptState, initPc, sessions, activeSessionId, messages, composer, jsonState,
                 csvState, refs, loads, fileOp>>

\* the Stop button, shown while streaming (lines 439-441, 1260-1263)
HandleStop ==
  /\ streaming
  /\ abortRef' = TRUE
  /\ sends' = [i \in SendIds |->
                IF sends[i].pc \in {"saveUser", "stream"} /\ sends[i].route = "stream"
                THEN [sends[i] EXCEPT !.stopped = TRUE]
                ELSE sends[i]]
  /\ UNCHANGED <<statsCall, toolCall, deletes, promptState, initPc, sessions, activeSessionId, messages, composer, jsonState,
                 csvState, streaming, justCreatedSessionRef, loads, fileOp, db>>

\* ------------------------------------------------- login and session management
\* getSessions returns on login (lines 196-203): the list, then the 'new' chat
InitLoaded ==
  /\ initPc = "loading"
  /\ initPc' = "ready"
  /\ sessions' = <<SessionIdOf(0)>>
  /\ activeSessionId' = NewId
  /\ LET eff == ActiveSessionEffect(activeSessionId, NewId, messages, justCreatedSessionRef, loads)
     IN /\ messages' = eff.messages
        /\ justCreatedSessionRef' = eff.flag
        /\ loads' = eff.loads
  /\ UNCHANGED <<composer, jsonState, csvState, streaming, abortRef, sends, fileOp, db,
                 statsCall, toolCall, deletes, promptState>>

\* what New Chat and a session selection reset of the loaded data (lines 236-244, 250-258)
ResetComposerAndData ==
  /\ input' = <<>>
  /\ images' = 0
  /\ csvContext' = NULL
  /\ jsonContext' = NULL
  /\ channelJson' = NULL
  /\ channelJsonSummary' = ""
  /\ jsonError' = ""
  /\ sessionCsvRows' = NULL
  /\ sessionCsvHeaders' = NULL
  /\ UNCHANGED <<csvDataSummary, sessionSlimCsv>>

HandleNewChat ==
  /\ activeSessionId' = NewId
  /\ LET eff == ActiveSessionEffect(activeSessionId, NewId, <<>>, justCreatedSessionRef, loads)
     IN /\ messages' = eff.messages
        /\ justCreatedSessionRef' = eff.flag
        /\ loads' = eff.loads
  /\ ResetComposerAndData
  /\ UNCHANGED <<statsCall, toolCall, deletes, promptState, initPc, sessions, streaming, abortRef, sends, fileOp, db>>

HandleSelectSession(sessionId) ==
  /\ sessionId \in {sessions[k] : k \in DOMAIN sessions}
  /\ sessionId # activeSessionId
  /\ activeSessionId' = sessionId
  /\ LET eff == ActiveSessionEffect(activeSessionId, sessionId, messages, justCreatedSessionRef, loads)
     IN /\ messages' = eff.messages
        /\ justCreatedSessionRef' = eff.flag
        /\ loads' = eff.loads
  /\ ResetComposerAndData
  /\ UNCHANGED <<statsCall, toolCall, deletes, promptState, initPc, sessions, streaming, abortRef, sends, fileOp, db>>

\* a selection of the session already active returns at once (line 248)
HandleSelectActiveSession ==
  /\ activeSessionId \in {sessions[k] : k \in DOMAIN sessions}
  /\ UNCHANGED vars

\* loadMessages(...).then(setMessages) (line 217); a rejected call sets nothing
LoadMessagesReturns(sessionId, ok) ==
  /\ sessionId \in loads
  /\ loads' = loads \ {sessionId}
  /\ messages' = IF ok THEN LoadedMessages(db[sessionId]) ELSE messages
  /\ UNCHANGED <<statsCall, toolCall, deletes, promptState, initPc, sessions, activeSessionId, composer, jsonState, csvState,
                 streaming, refs, sends, fileOp, db>>

\* ------------------------------------------------- handleDeleteSession
\* the persistence service drops the session and its messages
DeleteSession(store, sessionId) == [store EXCEPT ![sessionId] = <<>>]

\* sessions.filter((s) => s.id !== sessionId) (line 265)
Remaining(list, sessionId) == SelectSeq(list, LAMBDA s : s # sessionId)

\* the session opened when the deleted one was active (line 268)
NextActive(remaining) == IF Len(remaining) > 0 THEN remaining[1] ELSE NewId

\* Delete in the menu of a sidebar row (lines 261-264, 968-976): the handler
\* keeps the sessions and the activeSessionId it was rendered with and awaits
\* deleteSession.
HandleDeleteSession(sessionId) ==
  /\ sessionId \in {sessions[k] : k \in DOMAIN sessions}
  /\ Cardinality(deletes) < MaxDeletes
  /\ deletes' = deletes \cup {[sessionId |-> sessionId,
                                sessions |-> sessions,
                                activeSessionId |-> activeSessionId]}
  /\ UNCHANGED <<statsCall, toolCall, promptState, initPc, sessions, activeSessionId, messages, composer,
                 jsonState, csvState, streaming, refs, sends, loads, fileOp, db>>

\* deleteSession returns (lines 265-270) or throws (nothing after line 264 runs)
DeleteSessionReturns(d, ok) ==
  /\ d \in deletes
  /\ deletes' = deletes \ {d}
  /\ IF ok
     THEN LET remaining == Remaining(d.sessions, d.sessionId) IN
          /\ db' = DeleteSession(db, d.sessionId)
          /\ sessions' = remaining
          /\ IF d.activeSessionId = d.sessionId
             THEN LET eff == ActiveSessionEffect(activeSessionId, NextActive(remaining), <<>>,
                                                 justCreatedSessionRef, loads)
                  IN /\ activeSessionId' = NextActive(remaining)
                     /\ messages' = eff.messages
                     /\ justCreatedSessionRef' = eff.flag
                     /\ loads' = eff.loads
             ELSE UNCHANGED <<activeSessionId, messages, justCreatedSessionRef, loads>>
     ELSE UNCHANGED <<db, sessions, activeSessionId, messages, justCreatedSessionRef, loads>>
  /\ UNCHANGED <<statsCall, toolCall, promptState, initPc, composer, jsonState, csvState, streaming,
                 abortRef, sends, fileOp>>

\* ------------------------------------------------- composer
\* typing in the text box, which is disabled while streaming (lines 1255-1258)
SetInput(t) ==
  /\ ~streaming
  /\ t # input
  /\ input' = t
  /\ UNCHANGED <<statsCall, toolCall, deletes, promptState, initPc, sessions, activeSessionId, messages, images, csvContext,
                 jsonContext, jsonState, csvState, streaming, refs, sends, loads,
                 fileOp, db>>

RemoveCsvChip ==
  /\ csvContext # NULL
  /\ csvContext' = NULL
  /\ UNCHANGED <<statsCall, toolCall, deletes, promptState, initPc, sessions, activeSessionId, messages, input, images,
                 jsonContext, jsonState, csvState, streaming, refs, sends, loads,
                 fileOp, db>>

RemoveJsonChip ==
  /\ jsonContext # NULL
  /\ jsonContext' = NULL
  /\ channelJson' = NULL
  /\ channelJsonSummary' = ""
  /\ jsonError' = ""
  /\ UNCHANGED <<statsCall, toolCall, deletes, promptState, initPc, sessions, activeSessionId, messages, input, images,
                 csvContext, csvState, streaming, refs, sends, loads, fileOp, db>>

RemoveImage ==
  /\ images > 0
  /\ images' = images - 1
  /\ UNCHANGED <<statsCall, toolCall, deletes, promptState, initPc, sessions, activeSessionId, messages, input, csvContext,
                 jsonContext, jsonState, csvState, streaming, refs, sends, loads,
                 fileOp, db>>

\* ------------------------------------------------- handleDrop / handleFileSelect
\* the stage of the handler that follows `stage` for the files it was given
NextStage(stage, f) ==
  IF stage = "start" /\ f.csv # NULL THEN "csv"
  ELSE IF stage \in {"start", "csv"} /\ f.json # NULL THEN "json"
  ELSE IF stage \in {"start", "csv", "json"} /\ f.img > 0 THEN "img"
  ELSE "idle"

\* Files are dropped on the message list (any time) or picked with the
\* attach button (disabled while streaming); the handler awaits the first read.
HandleFiles(csv, json, img, picked) ==
  /\ fileOp.pc = "idle"
  /\ picked => ~streaming
  /\ csv # NULL \/ json # NULL \/ img > 0
  /\ fileOp' = [pc |-> NextStage("start", [csv |-> csv, json |-> json, img |-> img]),
                csv |-> csv, json |-> json, img |-> img]
  /\ UNCHANGED <<statsCall, toolCall, deletes, promptState, initPc, sessions, activeSessionId, messages, composer, jsonState,
                 csvState, streaming, refs, sends, loads, db>>

\* fileToText of the CSV file returned (lines 303-318, 366-380)
FileCsvRead ==
  /\ fileOp.pc = "csv"
  /\ fileOp' = [fileOp EXCEPT !.pc = NextStage("csv", fileOp)]
  /\ IF ParseCSV(fileOp.csv) # NULL
     THEN LET rows == ParseCsvToRows(fileOp.csv) IN
          /\ csvContext' = ParseCSV(fileOp.csv)
          /\ jsonContext' = NULL
          /\ channelJson' = NULL
          /\ channelJsonSummary' = ""
          /\ jsonError' = ""
          /\ sessionCsvHeaders' = HeadersOf(fileOp.csv)
          /\ sessionCsvRows' = rows
          /\ csvDataSummary' = ComputeDatasetSummary(rows)
          /\ sessionSlimCsv' = BuildSlimCsv(rows)
     ELSE UNCHANGED <<csvContext, jsonContext, jsonState, csvState>>
  /\ UNCHANGED <<statsCall, toolCall, deletes, promptState, initPc, sessions, activeSessionId, messages, input, images,
                 streaming, refs, sends, loads, db>>

\* fileToText of the JSON file returned (lines 322-342, 383-402)
FileJsonReadKeepsChannelMutant ==
  /\ fileOp.pc = "json"
  /\ fileOp' = [fileOp EXCEPT !.pc = NextStage("json", fileOp)]
  /\ jsonContext' = fileOp.json
  /\ IF JsonParses(fileOp.json)
     THEN /\ channelJson' = JsonObj(fileOp.json)
          /\ channelJsonSummary' = SummarizeChannelJson(JsonObj(fileOp.json))
          /\ jsonError' = ""
          /\ csvContext' = NULL
          /\ sessionCsvRows' = NULL
          /\ sessionCsvHeaders' = NULL
          /\ csvDataSummary' = NULL
          /\ sessionSlimCsv' = NULL
     ELSE /\ jsonError' = JsonParseError(fileOp.json)
          /\ UNCHANGED <<channelJson, channelJsonSummary, csvContext, csvState>>
  /\ UNCHANGED <<statsCall, toolCall, deletes, promptState, initPc, sessions, activeSessionId, messages, input, images,
                 streaming, refs, sends, loads, db>>

FileJsonRead ==
  /\ fileOp.pc = "json"
  /\ fileOp' = [fileOp EXCEPT !.pc = NextStage("json", fileOp)]
  /\ jsonContext' = fileOp.json
  /\ IF JsonParses(fileOp.json)
     THEN /\ channelJson' = JsonObj(fileOp.json)
          /\ channelJsonSummary' = SummarizeChannelJson(JsonObj(fileOp.json))
          /\ jsonError' = ""
          /\ csvContext' = NULL
          /\ sessionCsvRows' = NULL
          /\ sessionCsvHeaders' = NULL
          /\ csvDataSummary' = NULL
          /\ sessionSlimCsv' = NULL
     ELSE /\ channelJson' = NULL
          /\ channelJsonSummary' = ""
          /\ jsonError' = JsonParseError(fileOp.json)
          /\ UNCHANGED <<csvContext, csvState>>
  /\ UNCHANGED <<statsCall, toolCall, deletes, promptState, initPc, sessions, activeSessionId, messages, input, images,
                 streaming, refs, sends, loads, db>>

\* the images were read (lines 344-353, 404-413)
FileImagesRead ==
  /\ fileOp.pc = "img"
  /\ fileOp' = NoFileOp
  /\ images' = IF images + fileOp.img > MaxImages THEN MaxImages ELSE images + fileOp.img
  /\ UNCHANGED <<statsCall, toolCall, deletes, promptState, initPc, sessions, activeSessionId, messages, input, csvContext,
                 jsonContext, jsonState, csvState, streaming, refs, sends, loads, db>>

\* ------------------------------------------------- specifications
\* The handlers above are the program.  A specification adds an environment:
\* what the user does and which collaborator calls fail.  The environments
\* differ in what the user does; the handlers are the same in all of them.

\* the steps with which an accepted handleSend call continues
SendSteps ==
  \/ \E i \in SendIds, ok \in BOOLEAN : CreateSessionReturns(i, ok)
  \/ \E i \in SendIds, ok \in BOOLEAN : SaveUserReturns(i, ok)
  \/ \E i \in SendIds, ok \in BOOLEAN : GenerateImageReturns(i, ok)
  \/ \E i \in SendIds, ok \in BOOLEAN : ToolSaveReturns(i, ok)
  \/ \E i \in SendIds, ok \in BOOLEAN : ToolSaveErrReturns(i, ok)
  \/ \E i \in SendIds, ok \in BOOLEAN : ToolsCallReturns(i, ok)
  \/ \E i \in SendIds : StreamChunk(i)
  \/ \E i \in SendIds, ok \in BOOLEAN : StreamEnds(i, ok)
  \/ \E i \in SendIds, ok \in BOOLEAN : SaveModelReturns(i, ok)

\* the user presses Send or Enter while no handleSend call is in progress
HandleSendAlone ==
  /\ \A j \in SendIds : ~InFlight(j)
  /\ HandleSend

\* A dataset was attached while the session list was loading: the states
\* handleDrop leaves for a.csv and for good.json, and the state without one.
InitWithData ==
  /\ initPc = "loading"
  /\ sessions = <<>>
  /\ activeSessionId = NULL
  /\ messages = <<>>
  /\ input = <<>>
  /\ images = 0
  /\ \E data \in {"none", "csv", "json"} :
       /\ csvContext = IF data = "csv" THEN "a.csv" ELSE NULL
       /\ jsonContext = IF data = "json" THEN "good.json" ELSE NULL
       /\ channelJson = IF data = "json" THEN JsonObj("good.json") ELSE NULL
       /\ channelJsonSummary =
            IF data = "json" THEN SummarizeChannelJson(JsonObj("good.json")) ELSE ""
       /\ sessionCsvRows = IF data = "csv" THEN ParseCsvToRows("a.csv") ELSE NULL
       /\ sessionCsvHeaders = IF data = "csv" THEN HeadersOf("a.csv") ELSE NULL
       /\ csvDataSummary =
            IF data = "csv" THEN ComputeDatasetSummary(ParseCsvToRows("a.csv")) ELSE NULL
       /\ sessionSlimCsv =
            IF data = "csv" THEN BuildSlimCsv(ParseCsvToRows("a.csv")) ELSE NULL
  /\ jsonError = ""
  /\ streaming = FALSE
  /\ abortRef = FALSE
  /\ justCreatedSessionRef = FALSE
  /\ sends = [i \in SendIds |-> NoSend]
  /\ loads = {}
  /\ fileOp = NoFileOp
  /\ statsCall = NoStatsCall
  /\ promptFile = <<"be brief">>
  /\ cachedPrompt = NoPrompt
  /\ toolCall = NoToolCall
  /\ deletes = {}
  /\ db = [s \in AllSessionIds |->
             IF s = SessionIdOf(0)
             THEN <<[role |-> "user", content |-> <<"earlier question">>, by |-> 0]>>
             ELSE <<>>]

\* One chat: the user types, removes a chip, sends one message at a time and
\* may press Stop; every collaborator call may fail.
Next ==
  \/ InitLoaded
  \/ HandleSendAlone
  \/ HandleSendRejected
  \/ SendSteps
  \/ HandleStop
  \/ \E t \in Inputs : SetInput(t)
  \/ RemoveCsvChip
  \/ RemoveJsonChip

Spec == InitWithData /\ [][Next]_vars

\* the steps of an accepted handleSend call when every collaborator call succeeds
SendStepsOk ==
  \/ \E i \in SendIds : CreateSessionReturns(i, TRUE)
  \/ \E i \in SendIds : SaveUserReturns(i, TRUE)
  \/ \E i \in SendIds : GenerateImageReturns(i, TRUE)
  \/ \E i \in SendIds : ToolSaveReturns(i, TRUE)
  \/ \E i \in SendIds : ToolsCallReturns(i, TRUE)
  \/ \E i \in SendIds : StreamChunk(i)
  \/ \E i \in SendIds : StreamEnds(i, TRUE)
  \/ \E i \in SendIds : SaveModelReturns(i, TRUE)

\* One chat in which the user may press Send or Enter again at any time.
NextOverlap ==
  \/ InitLoaded
  \/ HandleSend
  \/ HandleSendRejected
  \/ SendStepsOk
  \/ HandleStop
  \/ \E t \in Inputs : SetInput(t)

SpecOverlap == InitWithData /\ [][NextOverlap]_vars

\* no message was sent yet
NothingSent == \A j \in SendIds : sends[j].pc = "unused"

\* The composer and the sidebar: until the message is sent the user types,
\* attaches and removes files, starts a new chat and opens sessions from the
\* sidebar in any order; the pending loadMessages calls return at any time.
NextCompose ==
  \/ InitLoaded
  \/ NothingSent /\ \E t \in Inputs : SetInput(t)
  \/ NothingSent /\ \E csv \in CsvFiles \cup {NULL}, json \in JsonFiles \cup {NULL},
                       img \in 0..1, picked \in BOOLEAN : HandleFiles(csv, json, img, picked)
  \/ NothingSent /\ FileCsvRead
  \/ NothingSent /\ FileJsonRead
  \/ NothingSent /\ FileImagesRead
  \/ NothingSent /\ RemoveCsvChip
  \/ NothingSent /\ RemoveJsonChip
  \/ NothingSent /\ RemoveImage
  \/ NothingSent /\ HandleNewChat
  \/ NothingSent /\ \E sessionId \in AllSessionIds : HandleSelectSession(sessionId)
  \/ NothingSent /\ HandleSelectActiveSession
  \/ NothingSent /\ HandleSend
  \/ HandleSendRejected
  \/ SendStepsOk
  \/ \E sessionId \in AllSessionIds, ok \in BOOLEAN : LoadMessagesReturns(sessionId, ok)

SpecCompose == Init /\ [][NextCompose]_vars

\* the steps of an accepted handleSend call when no dataset is loaded (the
\* client-tools call is not made then) and every collaborator call succeeds
SendStepsNoData ==
  \/ \E i \in SendIds : CreateSessionReturns(i, TRUE)
  \/ \E i \in SendIds : SaveUserReturns(i, TRUE)
  \/ \E i \in SendIds : GenerateImageReturns(i, TRUE)
  \/ \E i \in SendIds : ToolSaveReturns(i, TRUE)
  \/ \E i \in SendIds : StreamChunk(i)
  \/ \E i \in SendIds : StreamEnds(i, TRUE)
  \/ \E i \in SendIds : SaveModelReturns(i, TRUE)

\* The sidebar during a send: the user types and sends one message at a time,
\* and starts a new chat or opens a session at any time, also while a send is
\* in progress (the sidebar is never disabled).
NextSwitch ==
  \/ InitLoaded
  \/ \E t \in Inputs : SetInput(t)
  \/ HandleSendAlone
  \/ SendStepsNoData
  \/ HandleNewChat
  \/ \E sessionId \in AllSessionIds : HandleSelectSession(sessionId)
  \/ \E sessionId \in AllSessionIds, ok \in BOOLEAN : LoadMessagesReturns(sessionId, ok)

SpecSwitch == Init /\ [][NextSwitch]_vars

\* The steps of a send of plain text whose service calls all succeed: it
\* streams.
SendStepsChat ==
  \/ \E i \in SendIds : CreateSessionReturns(i, TRUE)
  \/ \E i \in SendIds : SaveUserReturns(i, TRUE)
  \/ \E i \in SendIds : StreamChunk(i)
  \/ \E i \in SendIds : StreamEnds(i, TRUE)
  \/ \E i \in SendIds : SaveModelReturns(i, TRUE)

\* The sidebar with its Delete menu: sends in the 'new' chat and in opened
\* sessions, New Chat, session selection and deletion, in any order, also while
\* a send or a deleteSession is pending.
NextSessions ==
  \/ InitLoaded
  \/ SetInput(<<" ", "hi", " ">>)
  \/ HandleSendAlone
  \/ SendStepsChat
  \/ HandleNewChat
  \/ \E sessionId \in AllSessionIds : HandleSelectSession(sessionId)
  \/ \E sessionId \in AllSessionIds, ok \in BOOLEAN : LoadMessagesReturns(sessionId, ok)
  \/ \E sessionId \in AllSessionIds : HandleDeleteSession(sessionId)
  \/ \E d \in deletes, ok \in BOOLEAN : DeleteSessionReturns(d, ok)

SpecSessions == Init /\ [][NextSessions]_vars

\* JSON files that parse: with videos, without videos, with videos that lack
\* dates and like counts
ChannelFiles == {"good.json", "novideos.json", "sparse.json"}

\* The 'new' chat after login with a message typed and a dataset attached: no
\* dataset, a CSV chip pending, the CSV rows loaded with the chip removed, a
\* JSON chip pending for a file that parses, or one for a file that does not.
InitRouting ==
  /\ initPc = "ready"
  /\ sessions = <<SessionIdOf(0)>>
  /\ activeSessionId = NewId
  /\ messages = <<>>
  /\ input \in {<<p>> : p \in RoutingPhrases}
  /\ images = 0
  /\ \E data \in {"none", "csv", "rows", "bad.json"} \cup ChannelFiles :
       /\ csvContext = IF data = "csv" THEN "a.csv" ELSE NULL
       /\ jsonContext = IF data \in ChannelFiles \cup {"bad.json"} THEN data ELSE NULL
       /\ channelJson = IF data \in ChannelFiles THEN JsonObj(data) ELSE NULL
       /\ channelJsonSummary =
            IF data \in ChannelFiles THEN SummarizeChannelJson(JsonObj(data)) ELSE ""
       /\ jsonError = IF data = "bad.json" THEN JsonParseError(data) ELSE ""
       /\ sessionCsvRows = IF data \in {"csv", "rows"} THEN ParseCsvToRows("a.csv") ELSE NULL
       /\ sessionCsvHeaders = IF data \in {"csv", "rows"} THEN HeadersOf("a.csv") ELSE NULL
       /\ csvDataSummary =
            IF data \in {"csv", "rows"}
            THEN ComputeDatasetSummary(ParseCsvToRows("a.csv")) ELSE NULL
       /\ sessionSlimCsv =
            IF data \in {"csv", "rows"} THEN BuildSlimCsv(ParseCsvToRows("a.csv")) ELSE NULL
  /\ streaming = FALSE
  /\ abortRef = FALSE
  /\ justCreatedSessionRef = FALSE
  /\ sends = [i \in SendIds |-> NoSend]
  /\ loads = {}
  /\ fileOp = NoFileOp
  /\ statsCall = NoStatsCall
  /\ promptFile = <<"be brief">>
  /\ cachedPrompt = NoPrompt
  /\ toolCall = NoToolCall
  /\ deletes = {}
  /\ db = [s \in AllSessionIds |->
             IF s = SessionIdOf(0)
             THEN <<[role |-> "user", content |-> <<"earlier question">>, by |-> 0]>>
             ELSE <<>>]

\* The routing of one message: the user sends what is composed and the
\* collaborators answer.
NextRouting ==
  \/ HandleSendAlone
  \/ SendStepsOk

SpecRouting == InitRouting /\ [][NextRouting]_vars

\* ------------------------------------------------- properties
Last(seq) == seq[Len(seq)]

\* the assistant bubble of send i in a message list
HasBubble(msgs, i) == \E k \in DOMAIN msgs : msgs[k].id = AssistantId(i)

\* the text shown in the assistant bubbles of send i
BubbleTexts(msgs, i) ==
  {msgs[k].content : k \in {n \in DOMAIN msgs : msgs[n].id = AssistantId(i)}}

\* send i ends in this step by returning
Returns(i) == InFlight(i) /\ sends'[i].pc = "done"

\* C1: while an accepted handleSend call has not finished, a further call is
\* rejected: it shows no message, creates no session and saves nothing, so at
\* most one accepted call is in progress at any time.
C1_SecondSendRejected == Cardinality({i \in SendIds : InFlight(i)}) <= 1

\* C2: once Stop was pressed during a send on the streaming path, no chunk
\* that arrives afterwards is appended to the reply, and what had arrived
\* stays as it is.
C2_NoChunkAfterStop ==
  [][\A i \in SendIds :
       (sends[i].stopped /\ sends[i].route = "stream" /\ sends'[i].pc \in {"saveUser", "stream", "saveModel"})
         => /\ sends'[i].chunks = sends[i].chunks
            /\ sends'[i].fullContent \in {sends[i].fullContent, CaughtContent(sends[i])}]_vars

\* C3: when the model call of the client-tools or streaming path throws, the
\* placeholder shows the error text; when the handler then returns, the error
\* text is the model message it saved last, streaming is false and the chat is
\* still the active session, so the guard accepts the next send.
C3_ModelErrorRecovered ==
  [][\A i \in SendIds :
       /\ (sends[i].pc \in {"toolsCall", "stream"} /\ ~sends[i].threw /\ sends'[i].threw)
            => /\ sends'[i].pc = "saveModel"
               /\ BubbleTexts(messages', i) = {ErrText("model call failed")}
       /\ (sends[i].route \in {"tools", "stream"} /\ sends[i].threw /\ Returns(i))
            => /\ Last(db'[sends[i].sessionId]) =
                    [role |-> "model", content |-> ErrText("model call failed"), by |-> i]
               /\ BubbleTexts(messages', i) = {ErrText("model call failed")}
               /\ ~streaming'
               /\ activeSessionId' = sends[i].sessionId]_vars

\* C3 witness: a model call threw, the handler returned, and a later send was
\* accepted in the same session
C3_Witness ==
  \E i, j \in SendIds :
    /\ sends[i].pc = "done" /\ sends[i].threw
    /\ \E k \in DOMAIN db[sends[i].sessionId] :
         db[sends[i].sessionId][k] =
           [role |-> "model", content |-> ErrText("model call failed"), by |-> i]
    /\ InFlight(j) /\ sends[j].sessionId = sends[i].sessionId

\* C4: a send that was accepted and whose handler has ended, by returning or
\* by throwing, has left the orchestrator idle: streaming is false again.
C4_EndsIdle == (\A i \in SendIds : ~InFlight(i)) => ~streaming

\* C9: when a send returns, the text it saved last for the assistant message is
\* the text its assistant bubble shows, on every path.
C9_SavedIsDisplayed ==
  [][\A i \in SendIds :
       Returns(i) =>
         /\ Last(db'[sends[i].sessionId]).role = "model"
         /\ Last(db'[sends[i].sessionId]).by = i
         /\ BubbleTexts(messages', i) = {Last(db'[sends[i].sessionId]).content}
         /\ BubbleTexts(LoadedMessages(db'[sends[i].sessionId]), i) = {}
         /\ Last(LoadedMessages(db'[sends[i].sessionId])).content
              \in BubbleTexts(messages', i)]_vars

\* C9 witness: Stop cut a stream after its first chunk and the partial text
\* was saved
C9_Witness ==
  \E i \in SendIds :
    /\ sends[i].pc = "done" /\ sends[i].stopped
    /\ Last(db[sends[i].sessionId]) =
         [role |-> "model", content |-> <<ChunkText(1)>>, by |-> i]
    /\ BubbleTexts(messages, i) = {<<ChunkText(1)>>}

\* the blocks of a text
Blocks(text) == {text[k] : k \in DOMAIN text}

\* C5: at most one of the CSV chip and the JSON chip is pending.
C5_AtMostOneContext == csvContext = NULL \/ jsonContext = NULL

\* the summaries and slim tables any CSV file gives
DatasetBlocks ==
  UNION { { ComputeDatasetSummary(ParseCsvToRows(f)), BuildSlimCsv(ParseCsvToRows(f)) } :
          f \in CsvFiles }

\* C6: a dataset summary or slim table in the prompt of a send was computed
\* from the rows that were loaded when the prompt was built.
C6_SummaryFromLoadedRows ==
  \A i \in SendIds :
    InFlight(i) =>
      \A b \in Blocks(sends[i].prompt) \cap DatasetBlocks :
        /\ sends[i].rowsAtBuild # NULL
        /\ b \in { ComputeDatasetSummary(sends[i].rowsAtBuild),
                   BuildSlimCsv(sends[i].rowsAtBuild) }

\* the text carries the base64 encoding of a dataset
HasBase64(text) == \E f \in CsvFiles : ("python:" \o ToBase64(f)) \in Blocks(text)

\* C7: a prompt handed to a model call carries the base64 dataset only when
\* the send runs the code-execution strategy on the streaming call; the sends
\* on the client-tools, JSON-tool and image paths hand none over.
C7_Base64OnlyWithCodeExecution ==
  \A i \in SendIds :
    /\ HasBase64(sends[i].sentPrompt)
         => /\ sends[i].useCodeExecution
            /\ sends[i].sentTo = "streamChat"
            /\ sends[i].route = "stream"
    /\ (InFlight(i) /\ sends[i].route \in {"tools", "json", "image"})
         => ~HasBase64(sends[i].sentPrompt)
    /\ (InFlight(i) /\ sends[i].route = "stream" /\ ~sends[i].useCodeExecution)
         => ~HasBase64(sends[i].sentPrompt)

\* C7 witness: a code-execution send handed a prompt with the base64 dataset
\* to streamChat
C7_Witness ==
  \E i \in SendIds :
    /\ sends[i].sentTo = "streamChat"
    /\ sends[i].useCodeExecution
    /\ HasBase64(sends[i].sentPrompt)

\* what a user bubble can show: a typed text trimmed, or a placeholder
DisplayTexts ==
  ({Trim(t) : t \in Inputs} \ {<<>>})
    \cup {<<"(Image)">>, <<"(CSV attached)">>, <<"(JSON attached)">>}

\* a block of a context prefix: a file header, a summary, the base64 dataset
\* or the separator
ContextBlocks ==
  DatasetBlocks
    \cup {Sep}
    \cup UNION { { "[CSV File: " \o f \o "]", "python:" \o ToBase64(f),
                   "[CSV columns: " \o HeadersOf(f) \o "]" } : f \in CsvFiles }
    \cup UNION { { "[YouTube Channel JSON: " \o f \o "]", JsonParseError(f),
                   SummarizeChannelJson(JsonObj(f)) } : f \in JsonFiles }

\* C8: every user message saved by a send is a display text, the one of the
\* send's user bubble, and has no block of a context prefix in it.
C8_SavedUserTextIsDisplayText ==
  \A sessionId \in AllSessionIds : \A k \in DOMAIN db[sessionId] :
    LET m == db[sessionId][k] IN
    (m.role = "user" /\ m.by \in SendIds)
      => /\ m.content \in DisplayTexts
         /\ Blocks(m.content) \cap ContextBlocks = {}
         /\ InFlight(m.by) =>
              /\ m.content = sends[m.by].userContent
              /\ sends[m.by].text # <<>> => m.content = sends[m.by].text

\* C8 witness: the prompt of a send carried a CSV prefix with the base64
\* dataset, and the user message it saved is the typed text
C8_Witness ==
  \E i \in SendIds :
    /\ HasBase64(sends[i].sentPrompt)
    /\ \E k \in DOMAIN db[sends[i].sessionId] :
         db[sends[i].sessionId][k] =
           [role |-> "user", content |-> <<"histogram of likes">>, by |-> i]

\* the ids of a message list, in order
Ids(msgs) == [k \in DOMAIN msgs |-> msgs[k].id]

\* the step keeps the session on display: a persisted session stays active,
\* or the 'new' chat receives the id of the session created for it
SessionStays ==
  \/ activeSessionId \notin {NULL, NewId} /\ activeSessionId' = activeSessionId
  \/ activeSessionId = NewId /\ activeSessionId' \notin {NULL, NewId} /\ sessions' # sessions

\* C10: while the session on display stays the same, the messages in the list
\* stay in it, in their order; messages are only added after them.
C10_MessagesAppendOnly ==
  [][SessionStays
       => /\ Len(messages') >= Len(messages)
          /\ SubSeq(Ids(messages'), 1, Len(messages)) = Ids(messages)]_vars

\* the sends whose user message or assistant bubble is the message
SendsOf(msg) == {i \in SendIds : msg.id \in {UserMsgId(i), AssistantId(i)}}

\* C11: a message that a send put on display is in the list of the session
\* the send runs in, and what a send saved is stored under that session's id.
C11_SendStaysInItsSession ==
  /\ \A k \in DOMAIN messages : \A i \in SendsOf(messages[k]) :
       sends[i].sessionId = activeSessionId
  /\ \A sessionId \in AllSessionIds : \A k \in DOMAIN db[sessionId] :
       db[sessionId][k].by \in SendIds
         => sends[db[sessionId][k].by].sessionId = sessionId

\* C12: createSession is called only by a call of handleSend that passed the
\* guard in the 'new' chat, and after login the session list grows only when
\* that call returns, by the one session it created; a send in a persisted
\* session goes on without creating one.
C12_SessionCreatedLazily ==
  [][/\ \A i \in SendIds :
          (sends[i].pc # "create" /\ sends'[i].pc = "create")
            => SendGuard /\ activeSessionId = NewId
     /\ \A i \in SendIds :
          (sends[i].pc = "unused" /\ sends'[i].pc # "unused" /\ activeSessionId # NewId)
            => sends'[i].pc = "saveUser" /\ sends'[i].sessionId = activeSessionId
                 /\ sessions' = sessions
     /\ (initPc = "ready" /\ sessions' # sessions)
          => \E i \in SendIds :
               /\ sends[i].pc = "create" /\ sends'[i].pc = "saveUser"
               /\ sessions' = <<SessionIdOf(i)>> \o sessions]_vars

\* C12 witness: the first send of a 'new' chat created its session, which now
\* heads the session list
C12_Witness ==
  \E i \in SendIds :
    /\ sends[i].pc = "saveUser"
    /\ sends[i].sessionId = SessionIdOf(i)
    /\ sessions = <<SessionIdOf(i), SessionIdOf(0)>>

\* the text consists of blanks only
IsBlank(t) == \A k \in DOMAIN t : t[k] = " "

\* nothing is composed: no text but blanks, no image, no CSV or JSON chip
NothingComposed ==
  IsBlank(input) /\ images = 0 /\ csvContext = NULL /\ jsonContext = NULL

\* C13: a call of handleSend made while nothing is composed is not accepted:
\* no step in which a send starts (and with it no message, session or saved
\* text of that send) leaves a state in which nothing is composed.
C13_EmptyMessageRejected ==
  [][NothingComposed
       => /\ \A i \in SendIds : sends[i].pc = "unused" => sends'[i].pc = "unused"
          /\ ~SendGuard]_vars

\* C13 witness: the chat is idle and ready, the user typed a blank, and the
\* guard rejects the call
C13_Witness ==
  /\ initPc = "ready" /\ activeSessionId = NewId /\ ~streaming
  /\ input = <<" ">> /\ NothingComposed
  /\ ENABLED HandleSendRejected

\* send i has reached its strategy: the call or tool it was routed to is made
Dispatched(i) ==
  sends[i].pc \in {"imgCall", "toolSave", "toolSaveErr", "toolsCall", "stream", "saveModel"}

\* the strategy send i was observed to take: the collaborator it called, and
\* for streamChat the code-execution flag it passed
StrategyOf(i) ==
  IF sends[i].sentTo = "generateImageTool" THEN "generate-image"
  ELSE IF sends[i].sentTo = "plotMetricVsTimeTool" THEN "metric-plot"
  ELSE IF sends[i].sentTo = "computeStatsJsonTool" THEN "stats"
  ELSE IF sends[i].sentTo = "playVideoTool" THEN "play-video"
  ELSE IF sends[i].sentTo = "chatWithCsvTools" THEN "client-tools"
  ELSE IF sends[i].useCodeExecution THEN "code-execution"
  ELSE "plain"

\* C14: the strategy follows the priority order: generate-image whenever its
\* expression matches, whatever data is loaded; else, with a channel JSON
\* loaded, metric-plot before stats before play-video; and client-tools,
\* code-execution or plain chat only when none of these was dispatched.
C14_PriorityOrder ==
  \A i \in SendIds :
    Dispatched(i) =>
      LET text == sends[i].text
          json == sends[i].chJson # NULL
      IN /\ WantsGenerateImage(text) => StrategyOf(i) = "generate-image"
         /\ (~WantsGenerateImage(text) /\ json /\ WantsMetricPlot(text))
              => StrategyOf(i) = "metric-plot"
         /\ (~WantsGenerateImage(text) /\ json /\ ~WantsMetricPlot(text) /\ WantsStatsJson(text))
              => StrategyOf(i) = "stats"
         /\ (~WantsGenerateImage(text) /\ json /\ ~WantsMetricPlot(text)
               /\ ~WantsStatsJson(text) /\ WantsPlayVideo(text))
              => StrategyOf(i) = "play-video"
         /\ StrategyOf(i) \in {"client-tools", "code-execution", "plain"}
              => /\ ~WantsGenerateImage(text)
                 /\ ~json \/ (~WantsMetricPlot(text) /\ ~WantsStatsJson(text)
                                /\ ~WantsPlayVideo(text))
         /\ (text = <<"generate an image of a plot of views over time">>)
              => sends[i].sentTo = "generateImageTool"
         /\ (text = <<"plot average views over time">> /\ json)
              => sends[i].sentTo = "plotMetricVsTimeTool"
         /\ (text = <<"average views, then play the video">> /\ json)
              => sends[i].sentTo = "computeStatsJsonTool"

\* C14 witness: with a channel JSON loaded, a text that matches the image and
\* the plot expression went to generateImageTool
C14_Witness ==
  \E i \in SendIds :
    /\ Dispatched(i) /\ sends[i].chJson # NULL
    /\ sends[i].text = <<"generate an image of a plot of views over time">>
    /\ sends[i].sentTo = "generateImageTool"

\* send i was sent while CSV rows were loaded and no CSV chip was pending, and
\* went neither to generate-image nor to a JSON tool
RowsLoadedGeneric(i) ==
  /\ Dispatched(i)
  /\ sends[i].rowsAtBuild # NULL /\ sends[i].csv = NULL
  /\ StrategyOf(i) \notin {"generate-image", "metric-plot", "stats", "play-video"}

C16_StatsFallsBackToCodeExecution ==
  \A i \in SendIds :
    (/\ Dispatched(i)
     /\ sends[i].rowsAtBuild = NULL /\ sends[i].chJson = NULL
     /\ WantsStatsJson(sends[i].text) /\ ~WantsGenerateImage(sends[i].text))
      => /\ StrategyOf(i) = "code-execution"
         /\ sends[i].sentTo # "computeStatsJsonTool"

\* C17 as stated: a text that matches the plot expression and not the image
\* expression goes to plotMetricVsTimeTool, one that matches the image
\* expression to generateImageTool.
C17_PlotTextGoesToPlotTool ==
  \A i \in SendIds :
    Dispatched(i) =>
      /\ (WantsMetricPlot(sends[i].text) /\ ~WantsGenerateImage(sends[i].text))
           => sends[i].sentTo = "plotMetricVsTimeTool"
      /\ WantsGenerateImage(sends[i].text) => sends[i].sentTo = "generateImageTool"

\* C17 as amended: while a channel JSON is loaded, a text that matches the plot
\* expression and not the image expression goes to plotMetricVsTimeTool and
\* the reply is what the tool returned (for good.json the chart of its two
\* videos); a text that matches the image expression goes to generateImageTool.
C17_PlotTextGoesToPlotToolWithJson ==
  \A i \in SendIds :
    Dispatched(i) =>
      /\ (WantsMetricPlot(sends[i].text) /\ ~WantsGenerateImage(sends[i].text)
            /\ sends[i].chJson # NULL)
           => /\ sends[i].sentTo = "plotMetricVsTimeTool"
              /\ sends[i].pc = "toolSave"
                   => /\ BubbleTexts(messages, i) = {sends[i].fullContent}
                      /\ sends[i].chJson = JsonObj("good.json")
                           => sends[i].fullContent =
                                <<"Plotted view_count vs time for 2 videos.">>
      /\ WantsGenerateImage(sends[i].text) => sends[i].sentTo = "generateImageTool"

\* C17 witness: "plot views vs time" with good.json loaded was answered by the
\* plot tool with a chart
C17_Witness ==
  \E i \in SendIds :
    /\ sends[i].pc = "toolSave"
    /\ sends[i].text = <<"plot views vs time">>
    /\ sends[i].sentTo = "plotMetricVsTimeTool"
    /\ \E k \in DOMAIN messages :
         /\ messages[k].id = AssistantId(i)
         /\ messages[k].content = <<"Plotted view_count vs time for 2 videos.">>
         /\ messages[k].charts = <<"metric_vs_time">>

\* the error string the JSON tool of send i returned, NULL when it returned a
\* result
ToolError(i) ==
  LET videos == GetVideos(sends[i].chJson)
      key == MetricKeyOf(sends[i].text)
  IN CASE sends[i].sentTo = "plotMetricVsTimeTool" -> PlotMetricVsTimeTool(videos, key).error
       [] sends[i].sentTo = "computeStatsJsonTool" -> ComputeStatsJsonTool(videos, key).error
       [] sends[i].sentTo = "playVideoTool" -> PlayVideoTool(videos, Which(sends[i].text)).error
       [] OTHER -> NULL

\* the bubble of the reply to send i carries this content and these charts
ReplyShown(msgs, i, content, charts) ==
  \E k \in DOMAIN msgs :
    /\ msgs[k].id = AssistantId(i)
    /\ msgs[k].content = content
    /\ msgs[k].charts = charts

NoticeShown == jsonContext # NULL /\ jsonError # ""

\* send i was made with the malformed attachment pending: its prompt carries
\* the parse error
SentWithNotice(i) ==
  /\ sends[i].pc \notin {"unused", "done", "failed"}
  /\ \E k \in DOMAIN sends[i].prompt : sends[i].prompt[k] = JsonParseError("bad.json")

\* C19: reading an attached file that fails JSON.parse leaves the chip with
\* the notice and no parsed channel JSON; removing the chip clears the notice;
\* while the notice is shown and nothing streams a send is accepted, and the
\* send made with the notice pending always has a next step and does not fail.
C19_MalformedJsonDoesNotBlock ==
  [][/\ (fileOp.pc = "json" /\ ~JsonParses(fileOp.json) /\ fileOp'.pc # "json")
          => NoticeShown' /\ channelJson' = NULL
     /\ (NoticeShown /\ jsonContext' = NULL
           /\ UNCHANGED <<input, images, csvContext, activeSessionId, sends, fileOp>>)
          => jsonError' = "" /\ channelJson' = NULL
     /\ (NoticeShown /\ initPc = "ready" /\ ~streaming) => SendGuard
     /\ \A i \in SendIds :
          SentWithNotice(i) => /\ ENABLED SendStepsOk
                               /\ sends'[i].pc # "failed"
                               /\ ~sends'[i].threw]_vars

\* C19 witness: the send made with the malformed attachment pending got its
\* answer and is saving it, and the notice is gone from the composer
C19_Witness ==
  \E i \in SendIds :
    /\ SentWithNotice(i)
    /\ sends[i].pc = "saveModel"
    /\ sends[i].text = <<"hi">>
    /\ ~NoticeShown

\* ------------------------------------------------- computeStatsJsonTool alone
\* the values a video carries in a field
FieldValues == {Num(1), Num(4), Blank, Text, Missing}

\* the video lists of at most MaxVideos videos
VideoLists ==
  UNION { [1..n -> {Video("v", Num(1), views, likes) :
                      views \in {Num(10), Missing}, likes \in FieldValues}]
          : n \in 0..MaxVideos }

\* the tool is called with any video list and either field
InitStats ==
  /\ initPc = "loading"
  /\ sessions = <<>>
  /\ activeSessionId = NULL
  /\ messages = <<>>
  /\ input = <<>>
  /\ images = 0
  /\ csvContext = NULL
  /\ jsonContext = NULL
  /\ channelJson = NULL
  /\ channelJsonSummary = ""
  /\ jsonError = ""
  /\ sessionCsvRows = NULL
  /\ sessionCsvHeaders = NULL
  /\ csvDataSummary = NULL
  /\ sessionSlimCsv = NULL
  /\ streaming = FALSE
  /\ abortRef = FALSE
  /\ justCreatedSessionRef = FALSE
  /\ sends = [i \in SendIds |-> NoSend]
  /\ loads = {}
  /\ fileOp = NoFileOp
  /\ promptFile = <<"be brief">>
  /\ cachedPrompt = NoPrompt
  /\ toolCall = NoToolCall
  /\ deletes = {}
  /\ db = [s \in AllSessionIds |-> <<>>]
  /\ \E videos \in VideoLists, field \in {"view_count", "like_count"} :
       statsCall = [pc |-> "called", videos |-> videos, field |-> field, result |-> NULL]

\* computeStatsJsonTool returns
ComputeStatsReturns ==
  /\ statsCall.pc = "called"
  /\ statsCall' = [statsCall EXCEPT
                     !.pc = "returned",
                     !.result = ComputeStatsJsonTool(statsCall.videos, statsCall.field)]
  /\ UNCHANGED <<toolCall, deletes, promptState, initPc, sessions, activeSessionId, messages, composer, jsonState,
                 csvState, streaming, refs, sends, loads, fileOp, db>>

NextStats == ComputeStatsReturns

SpecStats == InitStats /\ [][NextStats]_vars

\* the videos of the call that carry a number in the field asked for
NumericVideos ==
  {k \in DOMAIN statsCall.videos : statsCall.videos[k][statsCall.field].k = "num"}

\* C20: for a non-empty list with at least one numeric value in the field,
\* computeStatsJsonTool returns no error, min <= median <= max,
\* min <= mean <= max, and count is the number of videos with a numeric value.
C20_StatsOrderedAndCounted ==
  (statsCall.pc = "returned" /\ NumericVideos # {}) =>
    LET r == statsCall.result IN
    /\ r.error = NULL
    /\ r.min * r.median.den <= r.median.num /\ r.median.num <= r.max * r.median.den
    /\ r.min * r.mean.den <= r.mean.num /\ r.mean.num <= r.max * r.mean.den
    /\ r.count = Cardinality(NumericVideos)

\* the ordering half of C20 alone
C20_StatsOrdered ==
  (statsCall.pc = "returned" /\ NumericVideos # {}) =>
    LET r == statsCall.result IN
    /\ r.error = NULL
    /\ r.min * r.median.den <= r.median.num /\ r.median.num <= r.max * r.median.den
    /\ r.min * r.mean.den <= r.mean.num /\ r.mean.num <= r.max * r.mean.den

\* ------------------------------------------------- sends whose saveMessage calls succeed
\* the steps of an accepted handleSend call when saveMessage never fails;
\* createSession, generateImageTool and the model call may fail
SendStepsSaved ==
  \/ \E i \in SendIds, ok \in BOOLEAN : CreateSessionReturns(i, ok)
  \/ \E i \in SendIds : SaveUserReturns(i, TRUE)
  \/ \E i \in SendIds, ok \in BOOLEAN : GenerateImageReturns(i, ok)
  \/ \E i \in SendIds : ToolSaveReturns(i, TRUE)
  \/ \E i \in SendIds : ToolSaveErrReturns(i, TRUE)
  \/ \E i \in SendIds, ok \in BOOLEAN : ToolsCallReturns(i, ok)
  \/ \E i \in SendIds : StreamChunk(i)
  \/ \E i \in SendIds, ok \in BOOLEAN : StreamEnds(i, ok)
  \/ \E i \in SendIds : SaveModelReturns(i, TRUE)

\* One chat with a dataset: the user types, sends one message at a time, may
\* press Stop and may start a new chat at any time.
NextPersist ==
  \/ InitLoaded
  \/ HandleSendAlone
  \/ HandleSendRejected
  \/ SendStepsSaved
  \/ HandleStop
  \/ \E t \in Inputs : SetInput(t)
  \/ HandleNewChat

SpecPersist == InitWithData /\ [][NextPersist]_vars

\* the positions in the stored messages of session s of the messages that
\* send i saved with the role
SavedAt(s, i, role) ==
  {k \in DOMAIN db[s] : db[s][k].by = i /\ db[s][k].role = role}

\* the sessions that hold a message saved by send i
SessionsOf(i) == {s \in AllSessionIds : \E k \in DOMAIN db[s] : db[s][k].by = i}

EditPromptFile(content) ==
  /\ content # promptFile
  /\ promptFile' = content
  /\ UNCHANGED <<statsCall, toolCall, deletes, cachedPrompt, initPc, sessions, activeSessionId, messages,
                 composer, jsonState, csvState, streaming, refs, sends, loads, fileOp, db>>

\* One chat with a dataset in which the prompt file is edited between and
\* during the sends; every collaborator call succeeds.
NextPrompt ==
  \/ InitLoaded
  \/ HandleSendAlone
  \/ HandleSendRejected
  \/ SendStepsOk
  \/ \E t \in Inputs : SetInput(t)
  \/ \E content \in PromptFiles : EditPromptFile(content)

SpecPrompt == InitWithData /\ [][NextPrompt]_vars

\* C22: every model call (streamChat or chatWithCsvTools) uses as system
\* instruction the trimmed content the prompt file had when the call was made.
C22_PromptFileReadPerCall ==
  \A i \in SendIds :
    sends[i].sentTo \in {"streamChat", "chatWithCsvTools"}
      => sends[i].systemInstruction = Trim(sends[i].fileAtCall)

\* ------------------------------------------------- order of the prompt
\* the dataset-identity lines handleSend can write
IdentityLines ==
  {"[CSV File: " \o f \o "]" : f \in CsvFiles}
    \cup {"[CSV columns: " \o h \o "]" : h \in {HeadersOf(f) : f \in CsvFiles} \cup {NULL}}
    \cup {"[YouTube Channel JSON: " \o f \o "]" : f \in JsonFiles}

\* the summaries: of a CSV, of a channel JSON, or the notice of a JSON that
\* did not parse
SummaryBlocks ==
  {ComputeDatasetSummary(ParseCsvToRows(f)) : f \in CsvFiles}
    \cup {SummarizeChannelJson(JsonObj(f)) : f \in JsonFiles}
    \cup {JsonParseError(f) : f \in JsonFiles}

SlimBlocks == {BuildSlimCsv(ParseCsvToRows(f)) : f \in CsvFiles}

InstructionBlocks == {"python:" \o ToBase64(f) : f \in CsvFiles}

\* the place of a block in the fixed order; the user's text or the default
\* question comes last
Rank(b) ==
  IF b \in IdentityLines THEN 1
  ELSE IF b \in SummaryBlocks THEN 2
  ELSE IF b \in SlimBlocks THEN 3
  ELSE IF b \in InstructionBlocks THEN 4
  ELSE IF b = Sep THEN 5
  ELSE 6

\* the question the prompt must end with (the text, or the default question
\* for the kind of attachment)
ExpectedQuestion(s) ==
  IF s.text # <<>> THEN s.text
  ELSE IF s.nImages > 0 THEN <<"What do you see in this image?">>
  ELSE IF s.json # NULL THEN <<"Please analyze this YouTube channel JSON.">>
  ELSE <<"Please analyze this CSV data.">>

\* C23: in the prompt of every send the blocks stand in the fixed order
\* identity line, summary, slim data, code-execution instructions, separator,
\* question, none of the blocks before the question appears twice, the
\* instructions appear only with code execution, and the question is the
\* user's text or the default question for the attachment.
C23_PromptInFixedOrder ==
  \A i \in SendIds :
    InFlight(i) =>
      LET p == sends[i].prompt
          q == ExpectedQuestion(sends[i])
      IN /\ \A j, k \in DOMAIN p :
              (j < k /\ Rank(p[j]) < 6) => Rank(p[j]) < Rank(p[k])
         /\ (\E j \in DOMAIN p : Rank(p[j]) = 4) => sends[i].useCodeExecution
         /\ Len(p) >= Len(q) /\ SubSeq(p, Len(p) - Len(q) + 1, Len(p)) = q
         /\ \A j \in 1..(Len(p) - Len(q)) : Rank(p[j]) < 6

\* ------------------------------------------------- plotMetricVsTimeTool and playVideoTool alone
\* the sequences of at most MaxVideos elements of a set
ListsOf(S) == UNION { [1..n -> S] : n \in 0..MaxVideos }

\* videos for the plot: with a date, without one or with a text that is no
\* date; with a number of views, an empty string or a text
PlotVideos ==
  { Video(title, day, views, Missing) :
      title \in {"a", "b"}, day \in {Num(1), Num(2), Missing, Text},
      views \in {Num(10), Blank, Text} }

\* videos for the player
PlayVideos ==
  { Video(title, Num(1), views, Missing) :
      title \in {"Stop Motion", "Cats", "B"}, views \in {Num(1), Num(5), Missing} }

\* the requests playVideoTool is called with, in lower case
Queries == {"", "most viewed", "least viewed", "cats", "stop motion", "play the first video"}

\* channel JSON objects with the list under `videos`, under `items`, under
\* both (another list under `items`) or under neither
ChannelObjects(S) ==
  { Channel(TRUE, l, FALSE, <<>>) : l \in ListsOf(S) }
    \cup { Channel(FALSE, <<>>, TRUE, l) : l \in ListsOf(S) }
    \cup { Channel(TRUE, l, TRUE, << Video("i", Num(1), Num(10), Missing) >>) : l \in ListsOf(S) }
    \cup { Channel(FALSE, <<>>, FALSE, <<>>) }

\* one of the two tools is called with any of its arguments
InitTools ==
  /\ initPc = "loading"
  /\ sessions = <<>>
  /\ activeSessionId = NULL
  /\ messages = <<>>
  /\ input = <<>>
  /\ images = 0
  /\ csvContext = NULL
  /\ jsonContext = NULL
  /\ channelJson = NULL
  /\ channelJsonSummary = ""
  /\ jsonError = ""
  /\ sessionCsvRows = NULL
  /\ sessionCsvHeaders = NULL
  /\ csvDataSummary = NULL
  /\ sessionSlimCsv = NULL
  /\ streaming = FALSE
  /\ abortRef = FALSE
  /\ justCreatedSessionRef = FALSE
  /\ sends = [i \in SendIds |-> NoSend]
  /\ loads = {}
  /\ fileOp = NoFileOp
  /\ db = [s \in AllSessionIds |-> <<>>]
  /\ statsCall = NoStatsCall
  /\ promptFile = <<"be brief">>
  /\ cachedPrompt = NoPrompt
  /\ deletes = {}
  /\ \/ \E json \in ChannelObjects(PlotVideos) :
          toolCall = [NoToolCall EXCEPT !.pc = "called", !.tool = "plot",
                                        !.json = json, !.arg = "view_count"]
     \/ \E json \in ChannelObjects(PlayVideos), which \in Queries :
          toolCall = [NoToolCall EXCEPT !.pc = "called", !.tool = "play",
                                        !.json = json, !.arg = which]

\* plotMetricVsTimeTool returns
PlotMetricVsTimeReturns ==
  /\ toolCall.pc = "called" /\ toolCall.tool = "plot"
  /\ toolCall' = [toolCall EXCEPT
                    !.pc = "returned",
                    !.result = PlotMetricVsTimeTool(GetVideosIn(toolCall.json), toolCall.arg)]
  /\ UNCHANGED <<statsCall, deletes, promptState, initPc, sessions, activeSessionId, messages,
                 composer, jsonState, csvState, streaming, refs, sends, loads, fileOp, db>>

\* playVideoTool returns
PlayVideoReturns ==
  /\ toolCall.pc = "called" /\ toolCall.tool = "play"
  /\ toolCall' = [toolCall EXCEPT
                    !.pc = "returned",
                    !.result = PlayVideoTool(GetVideosIn(toolCall.json), toolCall.arg)]
  /\ UNCHANGED <<statsCall, deletes, promptState, initPc, sessions, activeSessionId, messages,
                 composer, jsonState, csvState, streaming, refs, sends, loads, fileOp, db>>

NextTools == PlotMetricVsTimeReturns \/ PlayVideoReturns

SpecTools == InitTools /\ [][NextTools]_vars

\* the list the claims speak of: the one under `videos` if there is one, else
\* the one under `items`
ListedVideos ==
  IF toolCall.json.hasVideos THEN toolCall.json.videos
  ELSE IF toolCall.json.hasItems THEN toolCall.json.items
  ELSE <<>>

\* the videos with a parseable date and a number for the metric
Plottable ==
  {k \in DOMAIN ListedVideos :
     /\ ListedVideos[k].published_at.k = "num"
     /\ ListedVideos[k][toolCall.arg].k = "num"}

\* C24: plotMetricVsTimeTool returns an error when no listed video has a date
\* and a numeric value; otherwise it returns exactly one point for each such
\* video, in non-decreasing order of date, points of the same date in the
\* order of the list.
C24_OnePointPerDatedNumericVideo ==
  (toolCall.pc = "returned" /\ toolCall.tool = "plot") =>
    LET r == toolCall.result
        n == Cardinality(Plottable)
    IN IF n = 0 THEN r.error # NULL
       ELSE /\ r.error = NULL
            /\ Len(r.data) = n
            /\ \E f \in [1..n -> Plottable] :
                 /\ \A j \in 1..n :
                      /\ r.data[j].key = ListedVideos[f[j]].published_at.n
                      /\ r.data[j].label = ListedVideos[f[j]].title
                      /\ r.data[j].value = ListedVideos[f[j]][toolCall.arg].n
                 /\ \A j, k \in 1..n :
                      j < k => \/ r.data[j].key < r.data[k].key
                               \/ r.data[j].key = r.data[k].key /\ f[j] < f[k]

\* the request asks for the most viewed, for the least viewed video
AsksMostViewed(q) == q \in {"most viewed", "play the most viewed video"}
AsksLeastViewed(q) == q \in {"least viewed"}

\* the first of a non-empty set of positions of the list
FirstWhere(positions) == CHOOSE k \in positions : \A j \in positions : k <= j

\* C25: for a non-empty list playVideoTool returns the first video of maximal
\* view count when asked for the most viewed, the first of minimal view count
\* when asked for the least viewed, the first whose title contains any other
\* non-empty request, and the first video when none does or the request is
\* empty.
C25_PlayPicksTheVideoAskedFor ==
  (toolCall.pc = "returned" /\ toolCall.tool = "play" /\ ListedVideos # <<>>) =>
    LET v == ListedVideos
        q == toolCall.arg
        max == {k \in DOMAIN v : \A j \in DOMAIN v : ViewCount(v[j]) <= ViewCount(v[k])}
        min == {k \in DOMAIN v : \A j \in DOMAIN v : ViewCount(v[j]) >= ViewCount(v[k])}
        hits == {k \in DOMAIN v : TitleIncludes(v[k].title, q)}
        expected == IF AsksMostViewed(q) THEN FirstWhere(max)
                    ELSE IF AsksLeastViewed(q) THEN FirstWhere(min)
                    ELSE IF q # "" /\ hits # {} THEN FirstWhere(hits)
                    ELSE 1
    IN /\ toolCall.result.error = NULL
       /\ toolCall.result.title = v[expected].title

\* the assistant placeholders of send i in the list on display
Placeholders(msgs, i) == {k \in DOMAIN msgs : msgs[k].id = AssistantId(i)}

\* C26: a send makes one strategy call and never replaces it by another;
\* useTools and useCodeExecution are never both true, client-tools is used
\* exactly when useTools is true; and the send appends exactly one assistant
\* placeholder, at the step that makes the call.
C26_OneStrategyOnePlaceholder ==
  [][\A i \in SendIds :
       LET s == sends[i]
           useTools == UseTools(s.text, s.rowsAtBuild, s.csv)
       IN /\ InFlight(i) => ~(useTools /\ s.useCodeExecution)
          /\ Dispatched(i) =>
               /\ StrategyOf(i) \in {"generate-image", "metric-plot", "stats", "play-video",
                                     "client-tools", "code-execution", "plain"}
               /\ StrategyOf(i) = "client-tools" <=> (useTools /\ s.route = "tools")
               /\ StrategyOf(i) = "code-execution" => s.useCodeExecution
               /\ sends'[i].sentTo \in {s.sentTo, "none"}
          /\ Cardinality(Placeholders(messages, i)) = IF s.sentTo # "none" \/ s.pc = "done" THEN 1 ELSE 0
          /\ (s.sentTo = "none" /\ sends'[i].sentTo # "none")
               => Cardinality(Placeholders(messages', i)) = 1]_vars

\* C26 witness: with rows loaded a text with a Python-only keyword went to
\* streamChat with code execution, with one placeholder
C26_Witness ==
  \E i \in SendIds :
    /\ Dispatched(i)
    /\ sends[i].rowsAtBuild # NULL /\ WantPythonOnly(sends[i].text)
    /\ sends[i].sentTo = "streamChat" /\ sends[i].useCodeExecution
    /\ Cardinality(Placeholders(messages, i)) = 1

\* C27: the abort flag is false when a send enters the streaming loop, so
\* that while a send streams the flag is set only if Stop was pressed during
\* that send; a chunk handed to a send during which Stop was not pressed is
\* appended to the reply on display, and the reply saved is what was
\* displayed.
C27_StopNotCarriedOver ==
  [][\A i \in SendIds :
       /\ (sends[i].pc # "stream" /\ sends'[i].pc = "stream") => ~abortRef'
       /\ (sends[i].pc = "stream" /\ abortRef) => sends[i].stopped
       /\ (sends[i].pc = "stream" /\ ~sends[i].stopped /\ sends'[i].chunks # sends[i].chunks)
            => /\ sends'[i].pc = "stream"
               /\ sends'[i].fullContent =
                    Append(sends[i].fullContent, ChunkText(sends[i].chunks + 1))
               /\ BubbleTexts(messages', i) = {sends'[i].fullContent}
       /\ (sends[i].pc = "saveModel" /\ sends[i].sentTo = "streamChat"
             /\ ~sends[i].stopped /\ ~sends[i].threw /\ sends'[i].pc = "done")
            => /\ Last(db'[sends[i].sessionId]).content = sends[i].fullContent
               /\ Len(sends[i].fullContent) = sends[i].chunks]_vars

\* C27 witness: Stop had been pressed and not consumed when the send reached
\* the streaming loop, and the send has a chunk on display
C27_Witness ==
  \E i \in SendIds :
    /\ sends[i].pc = "stream"
    /\ sends[i].abortBefore /\ ~sends[i].stopped
    /\ sends[i].chunks = 1
    /\ BubbleTexts(messages, i) = {<<ChunkText(1)>>}

\* the loaded dataset: the CSV session state and the parsed channel JSON
LoadedDataset == <<csvState, channelJson, channelJsonSummary>>

\* C28: the step of an accepted send that shows the user message clears the
\* input, the images and both attachment chips, and no step of a send
\* changes the loaded dataset.
C28_SendClearsComposerKeepsDataset ==
  [][\A i \in SendIds :
       /\ (sends[i].pc \in {"unused", "create"} /\ sends'[i].pc = "saveUser")
            => /\ input' = <<>> /\ images' = 0
               /\ csvContext' = NULL /\ jsonContext' = NULL
       /\ (InFlight(i) \/ InFlight(i)')
            => (sends'[i] # sends[i] => UNCHANGED LoadedDataset)]_vars

\* C28 witness: a send made with the CSV chip pending has shown its message;
\* the chip is gone and the rows are still loaded
C28_Witness ==
  \E i \in SendIds :
    /\ sends[i].pc = "saveUser"
    /\ sends[i].csv # NULL
    /\ csvContext = NULL /\ input = <<>>
    /\ sessionCsvRows = sends[i].rowsAtBuild /\ sessionCsvRows # NULL

\* C29: once the sessions are loaded, activeSessionId is 'new' or the id of a
\* session in the sidebar list, whatever the order of sends, selections, New
\* Chat and deletions, a pending deleteSession included.
C29_ActiveSessionListed ==
  initPc = "ready" =>
    \/ activeSessionId = NewId
    \/ activeSessionId \in {sessions[k] : k \in DOMAIN sessions}

\* the step in which send i gets its session from createSession
SessionAssigned(i) == sends[i].pc = "create" /\ sends'[i].pc = "saveUser"

\* C30: justCreatedSessionRef suppresses exactly the reload caused by the
\* session-id assignment of a send in the 'new' chat: that step keeps the
\* messages and adds the user message of the send, starts no loadMessages and
\* leaves the flag false; every other step that changes activeSessionId to a
\* session id empties the list and starts loadMessages of that session, and
\* the flag is false after every step.
C30_OnlyTheAssignmentReloadSuppressed ==
  [][ /\ ~justCreatedSessionRef'
      /\ \A i \in SendIds :
            SessionAssigned(i) =>
              /\ activeSessionId' = sends'[i].sessionId
              /\ messages' = Append(messages, Msg(UserMsgId(i), "user", sends[i].userContent))
              /\ loads' = loads
      /\ ( /\ activeSessionId' # activeSessionId
           /\ activeSessionId' # NewId
           /\ \A i \in SendIds : ~SessionAssigned(i) ) =>
              /\ messages' = <<>>
              /\ activeSessionId' \in loads' ]_vars

\* a send created session s1 and kept its user message on screen; later the
\* user opened s0: the list is empty and loadMessages of s0 is pending
C30_Witness ==
  /\ sends[1].sessionId = SessionIdOf(1)
  /\ sends[1].pc \notin {"create", "idle"}
  /\ activeSessionId = SessionIdOf(0)
  /\ SessionIdOf(0) \in loads
  /\ messages = <<>>
  /\ ~justCreatedSessionRef

====
